---- MODULE Spec2Model ----
(***************************************************************************)
(* Verification model of xray-checker: the ProxyChecker health-check       *)
(* engine (checker package) and the stableTopBLSelector hysteretic top-K   *)
(* selector (web package).                                                  *)
(*                                                                         *)
(* Durations are integers in nanoseconds (time.Duration); wall-clock times *)
(* of the checker are logical ticks, wall-clock times of the selector are  *)
(* whole hours.                                                            *)
(***************************************************************************)
EXTENDS Integers, Sequences, FiniteSets, TLC

(***************************************************************************)
(* Bounds of the model                                                     *)
(***************************************************************************)
MaxGen == 2         \* number of UpdateProxies calls explored
MaxCalls == 4       \* number of selector invocations explored

(***************************************************************************)
(* Program constants                                                       *)
(***************************************************************************)
Millisecond == 1000000
badLatencyThreshold == 1000 * Millisecond
DefaultConcurrency == 32

(***************************************************************************)
(* Proxy descriptors seen by the checker.  A descriptor is identified by   *)
(* the fields metricKeyForProxy formats: display name and stable identity  *)
(* (protocol, server, port and subscription name are the same for all      *)
(* descriptors of the universe).  The two descriptors share a display name.*)
(***************************************************************************)
DescA == [name |-> "dup", sid |-> "ida"]
DescB == [name |-> "dup", sid |-> "idb"]

\* The proxy lists a caller passes to NewProxyChecker / UpdateProxies.
ProxyLists == { <<>>, <<DescA>>, <<DescA, DescB>> }

RECURSIVE MaxLen(_)
MaxLen(lists) ==
    IF lists = {} THEN 0
    ELSE LET l == CHOOSE x \in lists : TRUE
             rest == MaxLen(lists \ {l})
         IN  IF Len(l) > rest THEN Len(l) ELSE rest

\* A faulty metric key to compare with: the display name alone
metricKeyByName(proxy) == <<proxy.name>>

metricKeyForProxy(proxy) == <<proxy.name, proxy.sid>>

\* Time-to-first-byte values a probe may measure: under and over the threshold.
ProbeLatencies == { 500 * Millisecond, 1500 * Millisecond }

CheckMethods == { "ip", "status", "download" }

\* The configured methods explored: "download" takes the same steps as "status".
ConfiguredMethods == { "ip", "status", "bogus" }

(***************************************************************************)
(* State of the ProxyChecker and of the goroutines running its methods     *)
(***************************************************************************)
VARIABLES
    proxies,            \* pc.proxies
    generation,         \* pc.generation
    generationSkips,    \* pc.generationSkips
    currentMetrics,     \* pc.currentMetrics: metric key -> online flag
    latencyMetrics,     \* pc.latencyMetrics: metric key -> latency
    badSince,           \* pc.badSince: metric key -> time of the first bad result
    checkMethod,        \* pc.checkMethod
    checkConcurrency,   \* pc.checkConcurrency
    ipInitialized,      \* pc.ipInitialized (own IP cached)
    clock,              \* time.Now() as markBad reads it (it stands still)
    upPc,               \* position of the UpdateProxies call in progress
    upNew,              \* its argument newProxies
    upGen0,             \* pc.generation when the call took the lock
    upQuiet,            \* no probe overlaps the call
    batchPc,            \* position of the CheckAllProxies call in progress
    batchList,          \* proxiesToCheck
    batchGen,           \* currentGeneration
    batchNext,          \* index of the next proxy the dispatch loop launches
    probe               \* the checkProxyInternal goroutines of the batch

checkerVars ==
    << proxies, generation, generationSkips, currentMetrics, latencyMetrics,
       badSince, checkMethod, checkConcurrency, ipInitialized, clock,
       upPc, upNew, upGen0, upQuiet,
       batchPc, batchList, batchGen, batchNext, probe >>

(***************************************************************************)
(* State of the selector and the record of its last invocation             *)
(***************************************************************************)
VARIABLES
    limit,              \* s.limit
    emaByKey,           \* s.emaByKey
    active,             \* s.active: key -> [item, addedAt, badStreak]
    published,          \* s.published
    lastPublished,      \* s.lastPublished
    hadEmergency,       \* s.hadEmergency
    selNow,             \* the `now` of the last invocation
    selCalls,           \* number of invocations so far
    returned,           \* the list the last invocation returned
    lastPath,           \* the return path the last invocation took
    lastAllNA,          \* in the last invocation every tagged candidate was n/a
    lastEvicted,        \* the keys the last invocation evicted for their streak
    lastProposed,       \* proposedLinks of the last invocation
    missCount,          \* key -> consecutive invocations without an online
                        \* observation while the key was in the active set
    reconMiss           \* the same, counting only invocations that reconciled

selVars ==
    << limit, emaByKey, active, published, lastPublished, hadEmergency, selNow,
       selCalls, returned, lastPath, lastAllNA, lastEvicted, lastProposed,
       missCount, reconMiss >>

(***************************************************************************)
(* The record of the last recorded application of one of the selector's    *)
(* functions: what it was given and what it computed                       *)
(***************************************************************************)
VARIABLES
    callArgs,           \* [fn, ...]: the function applied and its arguments
    callResult,         \* what the application computed
    callCount           \* number of applications recorded so far

fnVars == << callArgs, callResult, callCount >>

(***************************************************************************)
(* Concurrent invocations of the selector's Next                           *)
(***************************************************************************)
VARIABLES
    selectorMu,         \* s.mu: 0 when free, else the goroutine holding it
    nextInv,            \* goroutine -> its invocation of Next: position and locals
    serial              \* the selector as the same invocations leave it when run
                        \* one after the other in the order they took s.mu

concVars == << selectorMu, nextInv, serial >>

(***************************************************************************)
(* The remote subscription manager (RemoteManager) and the goroutines      *)
(* calling it                                                              *)
(***************************************************************************)
VARIABLES
    managerMu,          \* m.mu: 0 when free, else the goroutine holding it
    sources,            \* m.state.Sources: source id -> the stored RemoteSource
    savedState,         \* the state file as the last saveLocked wrote it
    rmOp                \* goroutine -> its call of the manager: position and locals

rmVars == << managerMu, sources, savedState, rmOp >>

Slots == 1..MaxLen(ProxyLists)

EmptyMap == [k \in {} |-> 0]

\* sync.Map.Store / map assignment
Store(m, k, v) == [x \in (DOMAIN m) \cup {k} |-> IF x = k THEN v ELSE m[x]]

\* sync.Map.Delete / delete(m, k)
Delete(m, k) == [x \in (DOMAIN m) \ {k} |-> m[x]]

NoProbe ==
    [pc |-> "none", proxy |-> <<>>, gen |-> 0, checkGeneration |-> TRUE,
     ok |-> FALSE, lat |-> 0, startedAt |-> 0,
     applied |-> {}, discarded |-> {}, stale |-> FALSE]

InFlight(i) == probe[i].pc \notin {"none", "done"}

InFlightCount == Cardinality({ i \in Slots : InFlight(i) })

\* NewProxyChecker: a configured concurrency <= 0 becomes 32.
NewProxyChecker(list, method, concurrency) ==
    /\ proxies = list
    /\ checkMethod = method
    /\ checkConcurrency = (IF concurrency <= 0 THEN DefaultConcurrency ELSE concurrency)
    /\ generation = 0
    /\ generationSkips = 0
    /\ currentMetrics = EmptyMap
    /\ latencyMetrics = EmptyMap
    /\ badSince = EmptyMap
    /\ ipInitialized = FALSE

ConfiguredConcurrency == { 0, 1 }

\* No batch and no update has started
NoCallInProgress ==
    /\ clock = 0
    /\ upPc = "idle"
    /\ upNew = <<>>
    /\ upGen0 = 0
    /\ upQuiet = TRUE
    /\ batchPc = "idle"
    /\ batchList = <<>>
    /\ batchGen = 0
    /\ batchNext = 1
    /\ probe = [i \in Slots |-> NoProbe]

CheckerInit ==
    /\ \E list \in ProxyLists, method \in ConfiguredMethods, c \in ConfiguredConcurrency :
          NewProxyChecker(list, method, c)
    /\ NoCallInProgress

cfgVars == << checkMethod, checkConcurrency >>
upVars == << upPc, upNew, upGen0, upQuiet >>
batchVars == << batchPc, batchList, batchGen, batchNext >>
mapVars == << currentMetrics, latencyMetrics >>

(***************************************************************************)
(* checkProxyInternal, one atomic memory operation per step                *)
(***************************************************************************)
\* isGenerationValid: the atomic load of pc.generation against expectedGeneration
isGenerationValid(p) == (~p.checkGeneration) \/ generation = p.gen

\* A faulty markBad to compare with: the timestamp is set anew every time
markBadOverwrite(m, key) == Store(m, key, clock)

\* markBad: keep an existing timestamp
markBad(m, key) == IF key \in DOMAIN m THEN m ELSE Store(m, key, clock)

\* A faulty clearBad to compare with: the timestamp stays
clearBadKeep(m, key) == m

\* clearBad
clearBad(m, key) == Delete(m, key)

\* A goroutine moves on; when it returns its locals (the check's result) are gone.
ProbeStep(i, next) ==
    probe' = [probe EXCEPT ![i] =
                IF next.pc = "done" THEN [next EXCEPT !.ok = FALSE, !.lat = 0]
                ELSE next]

\* The network check (checkByIP / checkByGen / checkByDownload) ends: the URL
\* parse error, a transport error and an unsuccessful check all take the
\* setFailedStatus(); setFailedLatency() path; an unknown method returns at once.
ProbeRun(i) ==
    /\ probe[i].pc = "run"
    /\ IF checkMethod \notin CheckMethods
       THEN ProbeStep(i, [probe[i] EXCEPT !.pc = "done"])
       ELSE \/ ProbeStep(i, [probe[i] EXCEPT !.pc = "fs_check", !.ok = FALSE])
            \/ \E lat \in ProbeLatencies :
                 ProbeStep(i, [probe[i] EXCEPT !.pc = "ok_check", !.ok = TRUE,
                                                !.lat = lat])
    /\ UNCHANGED << proxies, generation, generationSkips, mapVars, badSince,
                    cfgVars, ipInitialized, clock, upVars, batchVars >>
    /\ UNCHANGED << selVars, fnVars, concVars, rmVars >>

\* setFailedStatus: the generation check
FailStatusCheck(i) ==
    /\ probe[i].pc = "fs_check"
    /\ IF isGenerationValid(probe[i])
       THEN /\ ProbeStep(i, [probe[i] EXCEPT !.pc = "fs_store"])
            /\ UNCHANGED generationSkips
       ELSE /\ generationSkips' = generationSkips + 1
            /\ ProbeStep(i, [probe[i] EXCEPT !.pc = "fl_check",
                               !.discarded = @ \cup {"status", "bad"}])
    /\ UNCHANGED << proxies, generation, mapVars, badSince, cfgVars,
                    ipInitialized, clock, upVars, batchVars >>
    /\ UNCHANGED << selVars, fnVars, concVars, rmVars >>

\* setFailedStatus: pc.currentMetrics.Store(metricKey, false)
FailStatusStore(i) ==
    /\ probe[i].pc = "fs_store"
    /\ currentMetrics' = Store(currentMetrics, metricKeyForProxy(probe[i].proxy), FALSE)
    /\ ProbeStep(i, [probe[i] EXCEPT !.pc = "fs_mark", !.applied = @ \cup {"status"}])
    /\ UNCHANGED << proxies, generation, generationSkips, latencyMetrics,
                    badSince, cfgVars, ipInitialized, clock, upVars, batchVars >>
    /\ UNCHANGED << selVars, fnVars, concVars, rmVars >>

\* setFailedStatus: pc.markBad(metricKey)
FailStatusMark(i) ==
    /\ probe[i].pc = "fs_mark"
    /\ badSince' = markBad(badSince, metricKeyForProxy(probe[i].proxy))
    /\ ProbeStep(i, [probe[i] EXCEPT !.pc = "fl_check", !.applied = @ \cup {"bad"}])
    /\ UNCHANGED << proxies, generation, generationSkips, mapVars, cfgVars,
                    ipInitialized, clock, upVars, batchVars >>
    /\ UNCHANGED << selVars, fnVars, concVars, rmVars >>

\* setFailedLatency: the generation check (no skip is counted here)
FailLatencyCheck(i) ==
    /\ probe[i].pc = "fl_check"
    /\ IF isGenerationValid(probe[i])
       THEN ProbeStep(i, [probe[i] EXCEPT !.pc = "fl_store"])
       ELSE ProbeStep(i, [probe[i] EXCEPT !.pc = "done",
                            !.discarded = @ \cup {"latency"}])
    /\ UNCHANGED << proxies, generation, generationSkips, mapVars, badSince,
                    cfgVars, ipInitialized, clock, upVars, batchVars >>
    /\ UNCHANGED << selVars, fnVars, concVars, rmVars >>

\* setFailedLatency: pc.latencyMetrics.Store(metricKey, 0)
FailLatencyStore(i) ==
    /\ probe[i].pc = "fl_store"
    /\ latencyMetrics' = Store(latencyMetrics, metricKeyForProxy(probe[i].proxy), 0)
    /\ ProbeStep(i, [probe[i] EXCEPT !.pc = "fl_mark", !.applied = @ \cup {"latency"}])
    /\ UNCHANGED << proxies, generation, generationSkips, currentMetrics,
                    badSince, cfgVars, ipInitialized, clock, upVars, batchVars >>
    /\ UNCHANGED << selVars, fnVars, concVars, rmVars >>

\* setFailedLatency: pc.markBad(metricKey)
FailLatencyMark(i) ==
    /\ probe[i].pc = "fl_mark"
    /\ badSince' = markBad(badSince, metricKeyForProxy(probe[i].proxy))
    /\ ProbeStep(i, [probe[i] EXCEPT !.pc = "done", !.applied = @ \cup {"bad"}])
    /\ UNCHANGED << proxies, generation, generationSkips, mapVars, cfgVars,
                    ipInitialized, clock, upVars, batchVars >>
    /\ UNCHANGED << selVars, fnVars, concVars, rmVars >>

\* success path: the single generation check
SuccessCheck(i) ==
    /\ probe[i].pc = "ok_check"
    /\ IF isGenerationValid(probe[i])
       THEN /\ ProbeStep(i, [probe[i] EXCEPT !.pc = "ok_lat"])
            /\ UNCHANGED generationSkips
       ELSE /\ generationSkips' = generationSkips + 1
            /\ ProbeStep(i, [probe[i] EXCEPT !.pc = "done",
                               !.discarded = @ \cup {"status", "latency", "bad"}])
    /\ UNCHANGED << proxies, generation, mapVars, badSince, cfgVars,
                    ipInitialized, clock, upVars, batchVars >>
    /\ UNCHANGED << selVars, fnVars, concVars, rmVars >>

\* success path: pc.latencyMetrics.Store(metricKey, latency)
SuccessLatencyStore(i) ==
    /\ probe[i].pc = "ok_lat"
    /\ latencyMetrics' = Store(latencyMetrics, metricKeyForProxy(probe[i].proxy), probe[i].lat)
    /\ ProbeStep(i, [probe[i] EXCEPT !.pc = "ok_cur", !.applied = @ \cup {"latency"}])
    /\ UNCHANGED << proxies, generation, generationSkips, currentMetrics,
                    badSince, cfgVars, ipInitialized, clock, upVars, batchVars >>
    /\ UNCHANGED << selVars, fnVars, concVars, rmVars >>

\* success path: pc.currentMetrics.Store(metricKey, true)
SuccessStatusStore(i) ==
    /\ probe[i].pc = "ok_cur"
    /\ currentMetrics' = Store(currentMetrics, metricKeyForProxy(probe[i].proxy), TRUE)
    /\ ProbeStep(i, [probe[i] EXCEPT !.pc = "ok_bad", !.applied = @ \cup {"status"}])
    /\ UNCHANGED << proxies, generation, generationSkips, latencyMetrics,
                    badSince, cfgVars, ipInitialized, clock, upVars, batchVars >>
    /\ UNCHANGED << selVars, fnVars, concVars, rmVars >>

\* success path: markBad above the threshold, clearBad otherwise
SuccessBadSince(i) ==
    /\ probe[i].pc = "ok_bad"
    /\ LET key == metricKeyForProxy(probe[i].proxy)
       IN  badSince' = IF probe[i].lat > badLatencyThreshold
                       THEN markBad(badSince, key)
                       ELSE clearBad(badSince, key)
    /\ ProbeStep(i, [probe[i] EXCEPT !.pc = "done", !.applied = @ \cup {"bad"}])
    /\ UNCHANGED << proxies, generation, generationSkips, mapVars, cfgVars,
                    ipInitialized, clock, upVars, batchVars >>
    /\ UNCHANGED << selVars, fnVars, concVars, rmVars >>

(***************************************************************************)
(* CheckAllProxies                                                         *)
(***************************************************************************)
\* A faulty pre-check to compare with: the own IP is resolved for every method
NeedsCurrentIPAlways == TRUE

\* if pc.checkMethod == "ip": only then CheckAllProxies calls GetCurrentIP
NeedsCurrentIP == checkMethod = "ip"

\* GetCurrentIP for the "ip" method: served from the cache, resolved and
\* cached, or failed; on failure CheckAllProxies goes on to log and return.
CheckAllBegin ==
    /\ batchPc = "idle"
    /\ IF NeedsCurrentIP /\ ~ipInitialized
       THEN \E resolved \in BOOLEAN :
               /\ ipInitialized' = resolved
               /\ batchPc' = IF resolved THEN "snapshot" ELSE "warn"
       ELSE /\ batchPc' = "snapshot"
            /\ UNCHANGED ipInitialized
    /\ UNCHANGED << proxies, generation, generationSkips, mapVars, badSince,
                    cfgVars, clock, upVars, batchList, batchGen, batchNext,
                    probe >>
    /\ UNCHANGED << selVars, fnVars, concVars, rmVars >>

\* logger.Warn("Error getting current IP: ..."); return: the batch is skipped
CheckAllSkip ==
    /\ batchPc = "warn"
    /\ batchPc' = "idle"
    /\ UNCHANGED << proxies, generation, generationSkips, mapVars, badSince,
                    cfgVars, ipInitialized, clock, upVars, batchList, batchGen,
                    batchNext, probe >>
    /\ UNCHANGED << selVars, fnVars, concVars, rmVars >>

\* The copy of pc.proxies and the load of pc.generation under pc.mu.RLock();
\* an empty list returns at once.
CheckAllSnapshot ==
    /\ batchPc = "snapshot"
    /\ upPc = "idle"
    /\ IF Len(proxies) = 0
       THEN /\ batchPc' = "idle"
            /\ UNCHANGED << batchList, batchGen >>
       ELSE /\ batchPc' = "dispatch"
            /\ batchList' = proxies
            /\ batchGen' = generation
    /\ batchNext' = 1
    /\ UNCHANGED << proxies, generation, generationSkips, mapVars, badSince,
                    cfgVars, ipInitialized, clock, upVars, probe >>
    /\ UNCHANGED << selVars, fnVars, concVars, rmVars >>

\* A faulty semaphore to compare with: the send never blocks
SemHasRoomAlways == TRUE

\* sem <- struct{}{} can proceed: the channel of capacity pc.checkConcurrency
\* holds one token for every goroutine that has not yet run its deferred <-sem
SemHasRoom == InFlightCount < checkConcurrency

\* One turn of the dispatch loop: sem <- struct{}{}, wg.Add(1), go func(...)
CheckAllDispatch ==
    /\ batchPc = "dispatch"
    /\ SemHasRoom
    /\ probe' = [probe EXCEPT ![batchNext] =
                    [NoProbe EXCEPT !.pc = "run",
                                    !.proxy = batchList[batchNext],
                                    !.gen = batchGen,
                                    !.checkGeneration = TRUE,
                                    !.startedAt = clock,
                                    !.stale = probe[batchNext].stale]]
    /\ batchNext' = batchNext + 1
    /\ batchPc' = IF batchNext = Len(batchList) THEN "wait" ELSE "dispatch"
    /\ UNCHANGED << proxies, generation, generationSkips, mapVars, badSince,
                    cfgVars, ipInitialized, clock, upVars, batchList, batchGen >>
    /\ UNCHANGED << selVars, fnVars, concVars, rmVars >>

\* A faulty wait to compare with: one finished probe ends the wait
BatchProbesDoneAny == \E i \in 1..Len(batchList) : probe[i].pc = "done"

\* wg.Wait() can return: every goroutine of the batch has called wg.Done()
BatchProbesDone == \A i \in 1..Len(batchList) : probe[i].pc = "done"

\* wg.Wait() returns; atomic.SwapUint64(&pc.generationSkips, 0); the locals of
\* the call go out of scope.
CheckAllEnd ==
    /\ batchPc = "wait"
    /\ BatchProbesDone
    /\ generationSkips' = 0
    /\ batchPc' = "idle"
    /\ batchList' = <<>>
    /\ batchGen' = 0
    /\ batchNext' = 1
    /\ probe' = [i \in Slots |-> NoProbe]
    /\ UNCHANGED << proxies, generation, mapVars, badSince, cfgVars,
                    ipInitialized, clock, upVars >>
    /\ UNCHANGED << selVars, fnVars, concVars, rmVars >>

(***************************************************************************)
(* UpdateProxies                                                           *)
(***************************************************************************)
BatchProbesRunning == batchPc \in {"dispatch", "wait"}

\* A faulty increment to compare with: the counter advanced by two
NextGenerationTwice(g) == g + 2

\* atomic.AddUint64(&pc.generation, 1)
NextGeneration(g) == g + 1

\* pc.mu.Lock(); atomic.AddUint64(&pc.generation, 1).  Probes never take pc.mu,
\* so the lock and the increment are one step for them; every probe of the
\* batch in progress that has written nothing yet now belongs to an old
\* generation.
UpdateBegin ==
    /\ upPc = "idle"
    /\ generation < MaxGen
    /\ \E newProxies \in ProxyLists : upNew' = newProxies
    /\ upGen0' = generation
    /\ upQuiet' = ~BatchProbesRunning
    /\ generation' = NextGeneration(generation)
    /\ upPc' = "bumped"
    /\ probe' = [i \in Slots |->
                   IF /\ BatchProbesRunning
                      /\ i <= Len(batchList)
                      /\ probe[i].pc # "done"
                      /\ probe[i].applied = {}
                   THEN [probe[i] EXCEPT !.stale = TRUE]
                   ELSE probe[i]]
    /\ UNCHANGED << proxies, generationSkips, mapVars, badSince, cfgVars,
                    ipInitialized, clock, batchVars >>
    /\ UNCHANGED << selVars, fnVars, concVars, rmVars >>

\* ClearMetrics, first Range: delete every key of pc.currentMetrics
ClearCurrentMetrics == currentMetrics' = EmptyMap

\* ClearMetrics, second Range: delete every key of pc.latencyMetrics
ClearLatencyMetrics == latencyMetrics' = EmptyMap

UpdateClearCurrent ==
    /\ upPc = "bumped"
    /\ ClearCurrentMetrics
    /\ upPc' = "clearedCurrent"
    /\ UNCHANGED << proxies, generation, generationSkips, latencyMetrics,
                    badSince, cfgVars, ipInitialized, clock, upNew, upGen0,
                    upQuiet, batchVars, probe >>
    /\ UNCHANGED << selVars, fnVars, concVars, rmVars >>

\* The second Range of ClearMetrics; pc.proxies = newProxies; pc.mu.Unlock().
\* pc.proxies is read under pc.mu only, so the assignment and the unlock are
\* one step with the Range for every other goroutine.
UpdateReturn ==
    /\ upPc = "clearedCurrent"
    /\ ClearLatencyMetrics
    /\ proxies' = upNew
    /\ upPc' = "idle"
    /\ upNew' = <<>>
    /\ upQuiet' = TRUE
    /\ UNCHANGED << generation, generationSkips, currentMetrics, badSince, cfgVars,
                    ipInitialized, clock, upGen0, batchVars, probe >>
    /\ UNCHANGED << selVars, fnVars, concVars, rmVars >>

(***************************************************************************)
(* The other exported operations                                           *)
(***************************************************************************)
\* No CheckAllProxies or UpdateProxies call is in progress.
Quiescent == batchPc = "idle" /\ upPc = "idle"

\* CheckProxy: checkProxyInternal(proxy, 0, false) run to completion by a caller
\* between batches; no generation is checked and no skip is counted.
CheckProxy ==
    /\ Quiescent
    /\ \E proxy \in {DescA, DescB} :
         LET key == metricKeyForProxy(proxy)
         IN  IF checkMethod \notin CheckMethods
             THEN UNCHANGED << mapVars, badSince >>
             ELSE \/ /\ currentMetrics' = Store(currentMetrics, key, FALSE)
                     /\ latencyMetrics' = Store(latencyMetrics, key, 0)
                     /\ badSince' = markBad(badSince, key)
                  \/ \E lat \in ProbeLatencies :
                     /\ latencyMetrics' = Store(latencyMetrics, key, lat)
                     /\ currentMetrics' = Store(currentMetrics, key, TRUE)
                     /\ badSince' = IF lat > badLatencyThreshold
                                    THEN markBad(badSince, key)
                                    ELSE clearBad(badSince, key)
    /\ UNCHANGED << proxies, generation, generationSkips, cfgVars, ipInitialized,
                    clock, upVars, batchVars, probe >>
    /\ UNCHANGED << selVars, fnVars, concVars, rmVars >>

\* ClearMetrics called on its own, between batches
ClearMetrics ==
    /\ Quiescent
    /\ ClearCurrentMetrics
    /\ ClearLatencyMetrics
    /\ UNCHANGED << proxies, generation, generationSkips, badSince, cfgVars,
                    ipInitialized, clock, upVars, batchVars, probe >>
    /\ UNCHANGED << selVars, fnVars, concVars, rmVars >>

NotFound == [online |-> FALSE, latency |-> 0, err |-> "not found"]

\* A faulty getStatusByMetricKey to compare with: a missing result reads as
\* offline instead of an error
getStatusByMetricKeyDefault(metricKey) ==
    [online |-> IF metricKey \in DOMAIN currentMetrics
                THEN currentMetrics[metricKey] ELSE FALSE,
     latency |-> IF metricKey \in DOMAIN latencyMetrics
                 THEN latencyMetrics[metricKey] ELSE 0,
     err |-> "nil"]

\* getStatusByMetricKey; the empty key is modelled by <<>>
getStatusByMetricKey(metricKey) ==
    IF metricKey = <<>> THEN NotFound
    ELSE IF metricKey \notin DOMAIN currentMetrics THEN NotFound
    ELSE [online |-> currentMetrics[metricKey],
          latency |-> IF metricKey \in DOMAIN latencyMetrics
                      THEN latencyMetrics[metricKey] ELSE 0,
          err |-> "nil"]

\* The least element of a non-empty set of indices
FirstOf(S) == CHOOSE i \in S : \A j \in S : i <= j

\* GetProxyStatus: the first proxy of that name decides the metric key
GetProxyStatus(name) ==
    LET matches == { i \in 1..Len(proxies) : proxies[i].name = name }
    IN  getStatusByMetricKey(IF matches = {} THEN <<>>
                             ELSE metricKeyForProxy(proxies[FirstOf(matches)]))

\* GetProxyStatusByStableID: the first proxy of that StableID decides the key
GetProxyStatusByStableID(stableID) ==
    LET matches == { i \in 1..Len(proxies) : proxies[i].sid = stableID }
    IN  getStatusByMetricKey(IF matches = {} THEN <<>>
                             ELSE metricKeyForProxy(proxies[FirstOf(matches)]))

GetBadSince(proxy) ==
    LET metricKey == metricKeyForProxy(proxy)
    IN  IF metricKey \in DOMAIN badSince
        THEN [ts |-> badSince[metricKey], ok |-> TRUE]
        ELSE [ts |-> 0, ok |-> FALSE]

GetProxies == proxies

\* A read-only call: GetProxyStatus, GetProxyStatusByStableID and GetProxies
\* take pc.mu.RLock(), GetBadSince takes pc.badSinceMu.RLock(); the caller gets
\* the result and the checker is left as it was.
Query ==
    /\ upPc = "idle"
    /\ \E proxy \in {DescA, DescB} :
         /\ GetProxyStatus(proxy.name) \in [online : BOOLEAN, latency : Int, err : STRING]
         /\ GetProxyStatusByStableID(proxy.sid).err \in {"nil", "not found"}
         /\ GetBadSince(proxy).ok \in BOOLEAN
         /\ GetProxies \in ProxyLists
    /\ UNCHANGED checkerVars
    /\ UNCHANGED << selVars, fnVars, concVars, rmVars >>

(***************************************************************************)
(* The top-BL selector (stableTopBLSelector)                               *)
(*                                                                         *)
(* A descriptor is the part of models.ProxyConfig the selector reads:      *)
(*   name     rank of strings.ToLower(strings.TrimSpace(Name)) in          *)
(*            lexicographic order                                          *)
(*   hasBL, hasCIDR   whether the upper-cased name contains "BL" / "CIDR"  *)
(*   sid      rank of StableID in lexicographic order (never empty: Next   *)
(*            fills it in before it is used)                               *)
(*   src      SourceLine, a sequence of characters: "sp" is a space, "tab" *)
(*            a white-space control character, "ctl" another control      *)
(*            character, anything else a printable character               *)
(* All descriptors have the same protocol.                                 *)
(***************************************************************************)
Hour == 1
topBLBatchInterval == 2 * Hour
topBLMinHold == 2 * Hour
topBLReplaceMinMs == 50 * Millisecond
topBLBadStreakLimit == 2
topBLQuota == 10
topCIDRQuota == 10
DefaultSelectorLimit == 10

\* time.Time{}: further back than any interval the selector compares with
ZeroTime == 0 - (topBLBatchInterval + topBLMinHold)

IsSpace(c) == c \in {"sp", "tab"}
IsControl(c) == c \in {"tab", "ctl"}

RECURSIVE TrimLeft(_)
TrimLeft(str) ==
    IF str # <<>> /\ IsSpace(Head(str)) THEN TrimLeft(Tail(str)) ELSE str

RECURSIVE TrimRight(_)
TrimRight(str) ==
    IF str # <<>> /\ IsSpace(str[Len(str)])
    THEN TrimRight(SubSeq(str, 1, Len(str) - 1))
    ELSE str

\* strings.TrimSpace
TrimSpace(str) == TrimRight(TrimLeft(str))

\* sanitizeConfig: drop the characters below 32, then TrimSpace
sanitizeConfig(value) ==
    IF value = <<>> THEN <<>>
    ELSE TrimSpace(SelectSeq(value, LAMBDA c : ~IsControl(c)))

\* A faulty key to compare with: the name in place of the StableID
dedupKeyByName(proxy) == <<"name", proxy.name>>

\* dedupKey: StableID is set, so the key is protocol|stable|StableID
dedupKey(proxy) == <<"stable", proxy.sid>>

\* isBetterCandidate: latency, then name, then StableID
isBetterCandidate(left, right) ==
    IF left.latency # right.latency THEN left.latency < right.latency
    ELSE IF left.proxy.name # right.proxy.name THEN left.proxy.name < right.proxy.name
    ELSE left.proxy.sid < right.proxy.sid

\* A faulty sort to compare with: the worst candidate first
RECURSIVE SortRankedWorstFirst(_)
SortRankedWorstFirst(S) ==
    IF S = {} THEN <<>>
    ELSE LET worst == CHOOSE x \in S : \A y \in S \ {x} : isBetterCandidate(y, x)
         IN  <<worst>> \o SortRankedWorstFirst(S \ {worst})

\* sort.Slice(ranked, isBetterCandidate) of the candidates of a set
RECURSIVE SortRanked(_)
SortRanked(S) ==
    IF S = {} THEN <<>>
    ELSE LET best == CHOOSE x \in S : \A y \in S \ {x} : isBetterCandidate(x, y)
         IN  <<best>> \o SortRanked(S \ {best})

ZeroCounts == [online |-> 0, offline |-> 0, na |-> 0]

\* keyStates[key] of a Go map: the zero value when the key is absent
KeyState(keyStates, key) ==
    IF key \in DOMAIN keyStates THEN keyStates[key] ELSE ZeroCounts

\* A faulty loop to compare with: a descriptor answered offline becomes a
\* candidate like an online one
RECURSIVE FilterLoopOfflineToo(_, _, _, _)
FilterLoopOfflineToo(list, statusFn, i, acc) ==
    IF i > Len(list) THEN acc
    ELSE
      LET proxy == list[i]
      IN
        IF TrimSpace(proxy.src) = <<>> \/ (~proxy.hasBL /\ ~proxy.hasCIDR)
        THEN FilterLoopOfflineToo(list, statusFn, i + 1, acc)
        ELSE
          LET key == dedupKey(proxy)
              st == KeyState(acc.keyStates, key)
              res == statusFn[proxy.sid]
              counted == [acc EXCEPT !.totalBL = @ + 1]
          IN
            IF res.err
            THEN FilterLoopOfflineToo(list, statusFn, i + 1,
                   [counted EXCEPT
                      !.naCount = @ + 1,
                      !.keyStates = Store(@, key, [st EXCEPT !.na = @ + 1])])
            ELSE
              LET candidate == [proxy |-> proxy, latency |-> res.latency, key |-> key]
                  keep == /\ key \in DOMAIN acc.uniqueByKey
                          /\ ~isBetterCandidate(candidate, acc.uniqueByKey[key])
              IN  FilterLoopOfflineToo(list, statusFn, i + 1,
                    [counted EXCEPT
                       !.onlineCount = @ + 1,
                       !.keyStates = Store(@, key, [st EXCEPT !.online = @ + 1]),
                       !.uniqueByKey = IF keep THEN @ ELSE Store(@, key, candidate)])

\* The filter loop of selectTopBLAndCIDRByLatency, from proxy i on
RECURSIVE FilterLoop(_, _, _, _)
FilterLoop(list, statusFn, i, acc) ==
    IF i > Len(list) THEN acc
    ELSE
      LET proxy == list[i]
      IN
        IF TrimSpace(proxy.src) = <<>> \/ (~proxy.hasBL /\ ~proxy.hasCIDR)
        THEN FilterLoop(list, statusFn, i + 1, acc)
        ELSE
          LET key == dedupKey(proxy)
              st == KeyState(acc.keyStates, key)
              res == statusFn[proxy.sid]
              counted == [acc EXCEPT !.totalBL = @ + 1]
          IN
            IF res.err
            THEN FilterLoop(list, statusFn, i + 1,
                   [counted EXCEPT
                      !.naCount = @ + 1,
                      !.keyStates = Store(@, key, [st EXCEPT !.na = @ + 1])])
            ELSE IF ~res.online
            THEN FilterLoop(list, statusFn, i + 1,
                   [counted EXCEPT
                      !.offlineCount = @ + 1,
                      !.keyStates = Store(@, key, [st EXCEPT !.offline = @ + 1])])
            ELSE
              LET candidate == [proxy |-> proxy, latency |-> res.latency, key |-> key]
                  keep == /\ key \in DOMAIN acc.uniqueByKey
                          /\ ~isBetterCandidate(candidate, acc.uniqueByKey[key])
              IN  FilterLoop(list, statusFn, i + 1,
                    [counted EXCEPT
                       !.onlineCount = @ + 1,
                       !.keyStates = Store(@, key, [st EXCEPT !.online = @ + 1]),
                       !.uniqueByKey = IF keep THEN @ ELSE Store(@, key, candidate)])

\* A faulty walk to compare with: a BL-only candidate is taken whatever blCount is
RECURSIVE QuotaWalkNoBLCap(_, _, _, _, _)
QuotaWalkNoBLCap(ranked, i, blLimit, cidrLimit, acc) ==
    IF i > Len(ranked) THEN acc
    ELSE IF acc.blCount >= blLimit /\ acc.cidrCount >= cidrLimit THEN acc
    ELSE
      LET item == ranked[i]
          hasBL == item.proxy.hasBL
          hasCIDR == item.proxy.hasCIDR
          skip == QuotaWalkNoBLCap(ranked, i + 1, blLimit, cidrLimit, acc)
          take(bl, cidr) ==
              QuotaWalkNoBLCap(ranked, i + 1, blLimit, cidrLimit,
                [selected |-> Append(acc.selected, item),
                 keys |-> acc.keys \cup {item.key},
                 blCount |-> acc.blCount + bl,
                 cidrCount |-> acc.cidrCount + cidr])
      IN
        IF item.key \in acc.keys THEN skip
        ELSE IF ~hasBL /\ ~hasCIDR THEN skip
        ELSE IF hasBL /\ hasCIDR
        THEN LET blNeed == blLimit - acc.blCount
                 cidrNeed == cidrLimit - acc.cidrCount
             IN  IF blNeed <= 0 /\ cidrNeed <= 0 THEN skip
                 ELSE IF cidrNeed > blNeed THEN take(0, 1)
                 ELSE take(1, 0)
        ELSE IF hasBL
        THEN take(1, 0)
        ELSE IF acc.cidrCount >= cidrLimit THEN skip ELSE take(0, 1)

\* A faulty walk to compare with: a candidate with both markers always counts
\* against the BL quota
RECURSIVE QuotaWalkBothToBL(_, _, _, _, _)
QuotaWalkBothToBL(ranked, i, blLimit, cidrLimit, acc) ==
    IF i > Len(ranked) THEN acc
    ELSE IF acc.blCount >= blLimit /\ acc.cidrCount >= cidrLimit THEN acc
    ELSE
      LET item == ranked[i]
          hasBL == item.proxy.hasBL
          hasCIDR == item.proxy.hasCIDR
          skip == QuotaWalkBothToBL(ranked, i + 1, blLimit, cidrLimit, acc)
          take(bl, cidr) ==
              QuotaWalkBothToBL(ranked, i + 1, blLimit, cidrLimit,
                [selected |-> Append(acc.selected, item),
                 keys |-> acc.keys \cup {item.key},
                 blCount |-> acc.blCount + bl,
                 cidrCount |-> acc.cidrCount + cidr])
      IN
        IF item.key \in acc.keys THEN skip
        ELSE IF ~hasBL /\ ~hasCIDR THEN skip
        ELSE IF hasBL
        THEN IF acc.blCount >= blLimit THEN skip ELSE take(1, 0)
        ELSE IF acc.cidrCount >= cidrLimit THEN skip ELSE take(0, 1)

\* The quota walk of selectTopBLAndCIDRByLatency, from ranked[i] on; acc holds
\* result.proxies (selected), selectedKeys (keys), blCount and cidrCount
RECURSIVE QuotaWalk(_, _, _, _, _)
QuotaWalk(ranked, i, blLimit, cidrLimit, acc) ==
    IF i > Len(ranked) THEN acc
    ELSE IF acc.blCount >= blLimit /\ acc.cidrCount >= cidrLimit THEN acc
    ELSE
      LET item == ranked[i]
          hasBL == item.proxy.hasBL
          hasCIDR == item.proxy.hasCIDR
          skip == QuotaWalk(ranked, i + 1, blLimit, cidrLimit, acc)
          take(bl, cidr) ==
              QuotaWalk(ranked, i + 1, blLimit, cidrLimit,
                [selected |-> Append(acc.selected, item),
                 keys |-> acc.keys \cup {item.key},
                 blCount |-> acc.blCount + bl,
                 cidrCount |-> acc.cidrCount + cidr])
      IN
        IF item.key \in acc.keys THEN skip
        ELSE IF ~hasBL /\ ~hasCIDR THEN skip
        ELSE IF hasBL /\ hasCIDR
        THEN LET blNeed == blLimit - acc.blCount
                 cidrNeed == cidrLimit - acc.cidrCount
             IN  IF blNeed <= 0 /\ cidrNeed <= 0 THEN skip
                 ELSE IF cidrNeed > blNeed THEN take(0, 1)
                 ELSE take(1, 0)
        ELSE IF hasBL
        THEN IF acc.blCount >= blLimit THEN skip ELSE take(1, 0)
        ELSE IF acc.cidrCount >= cidrLimit THEN skip ELSE take(0, 1)

Range(f) == { f[x] : x \in DOMAIN f }

selectTopBLAndCIDRByLatency(list, statusFn, blLimitArg, cidrLimitArg) ==
    LET blLimit == IF blLimitArg < 0 THEN 0 ELSE blLimitArg
        cidrLimit == IF cidrLimitArg < 0 THEN 0 ELSE cidrLimitArg
        scan == FilterLoop(list, statusFn, 1,
                  [totalBL |-> 0, naCount |-> 0, onlineCount |-> 0,
                   offlineCount |-> 0, keyStates |-> EmptyMap,
                   uniqueByKey |-> EmptyMap])
        ranked == SortRanked(Range(scan.uniqueByKey))
        walk == QuotaWalk(ranked, 1, blLimit, cidrLimit,
                  [selected |-> <<>>, keys |-> {}, blCount |-> 0, cidrCount |-> 0])
    IN  [proxies |-> walk.selected,
         blCount |-> walk.blCount,          \* the loop's counters, kept for the
         cidrCount |-> walk.cidrCount,      \* record; the code drops them
         totalBL |-> scan.totalBL,
         naCount |-> scan.naCount,
         onlineCount |-> scan.onlineCount,
         offlineCount |-> scan.offlineCount,
         keyStates |-> scan.keyStates]


\* A faulty update to compare with: the weights of the two terms exchanged
EMAValueSwapped(prev, raw) ==
    3 * (prev \div 10) + ((3 * (prev % 10) + 7 * raw) \div 10)

\* One EMA update: time.Duration(0.7*float64(prev) + 0.3*float64(raw)), the
\* conversion truncating to whole nanoseconds.  For the latencies used below
\* (whole milliseconds, a positive raw value) the float64 sum lies within the
\* same nanosecond as the exact one, so the result is the integer quotient.
EMAValue(prev, raw) ==
    7 * (prev \div 10) + ((7 * (prev % 10) + 3 * raw) \div 10)

\* The loop of applyEMA from proxies[i] on; acc = [emaByKey, ranked]
RECURSIVE EMALoop(_, _, _)
EMALoop(list, i, acc) ==
    IF i > Len(list) THEN acc
    ELSE
      LET p == list[i]
          known == p.key \in DOMAIN acc.emaByKey
          ema == IF ~known \/ acc.emaByKey[p.key] <= 0
                 THEN p.latency
                 ELSE EMAValue(acc.emaByKey[p.key], p.latency)
      IN  EMALoop(list, i + 1,
            [emaByKey |-> Store(acc.emaByKey, p.key, ema),
             ranked |-> acc.ranked \cup
                          {[proxy |-> p.proxy, latency |-> ema, key |-> p.key]}])

\* applyEMA: the new s.emaByKey and the EMA-ranked list
applyEMA(ema, list) ==
    LET res == EMALoop(list, 1, [emaByKey |-> ema, ranked |-> {}])
    IN  [emaByKey |-> res.emaByKey, ranked |-> SortRanked(res.ranked)]

\* A faulty test to compare with: any lower latency counts
isAnyImprovement(candidate, current) == candidate < current

isSignificantImprovement(candidate, current) ==
    IF candidate >= current THEN FALSE
    ELSE IF current - candidate >= topBLReplaceMinMs THEN TRUE
    ELSE IF current <= 0 THEN FALSE
    ELSE 5 * (current - candidate) >= current      \* ratioGain >= 0.20

\* A faulty search to compare with: an entry held for exactly the minimum hold
\* does not count as replaceable yet
findWorstReplaceableStrictHold(act, now) ==
    LET replaceable ==
            { k \in DOMAIN act :
                \/ now - act[k].addedAt > topBLMinHold
                \/ act[k].badStreak >= topBLBadStreakLimit }
    IN  IF replaceable = {} THEN <<>>
        ELSE CHOOSE k \in replaceable :
               \A o \in replaceable \ {k} : isBetterCandidate(act[o].item, act[k].item)

\* A faulty search to compare with: every entry counts as replaceable
findWorstReplaceableAny(act, now) ==
    IF DOMAIN act = {} THEN <<>>
    ELSE CHOOSE k \in DOMAIN act :
           \A o \in (DOMAIN act) \ {k} : isBetterCandidate(act[o].item, act[k].item)

\* findWorstReplaceable: the key of the worst replaceable entry, <<>> if none
findWorstReplaceable(act, now) ==
    LET replaceable ==
            { k \in DOMAIN act :
                \/ now - act[k].addedAt >= topBLMinHold
                \/ act[k].badStreak >= topBLBadStreakLimit }
    IN  IF replaceable = {} THEN <<>>
        ELSE CHOOSE k \in replaceable :
               \A o \in replaceable \ {k} : isBetterCandidate(act[o].item, act[k].item)

\* A faulty first loop to compare with: the streak of a key the list does not
\* contain at all is left as it is
StreakLoopSeenOnly(act, byKey, keyStates) ==
    LET stepped ==
          [k \in DOMAIN act |->
             [item |-> IF k \in DOMAIN byKey THEN byKey[k] ELSE act[k].item,
              addedAt |-> act[k].addedAt,
              badStreak |-> IF KeyState(keyStates, k).online > 0 THEN 0
                            ELSE IF KeyState(keyStates, k).offline > 0
                                    \/ KeyState(keyStates, k).na > 0
                                 THEN act[k].badStreak + 1
                                 ELSE act[k].badStreak]]
        evicted == { k \in DOMAIN act : stepped[k].badStreak >= topBLBadStreakLimit }
    IN  [active |-> [k \in (DOMAIN act) \ evicted |-> stepped[k]],
         evicted |-> evicted]

\* A faulty first loop to compare with: an entry is evicted only when its
\* streak has passed the limit
StreakLoopLateEvict(act, byKey, keyStates) ==
    LET stepped ==
          [k \in DOMAIN act |->
             [item |-> IF k \in DOMAIN byKey THEN byKey[k] ELSE act[k].item,
              addedAt |-> act[k].addedAt,
              badStreak |-> IF KeyState(keyStates, k).online > 0
                            THEN 0 ELSE act[k].badStreak + 1]]
        evicted == { k \in DOMAIN act : stepped[k].badStreak > topBLBadStreakLimit }
    IN  [active |-> [k \in (DOMAIN act) \ evicted |-> stepped[k]],
         evicted |-> evicted]

\* reconcileActive, first loop: streaks, refreshed items, evictions
StreakLoop(act, byKey, keyStates) ==
    LET stepped ==
          [k \in DOMAIN act |->
             [item |-> IF k \in DOMAIN byKey THEN byKey[k] ELSE act[k].item,
              addedAt |-> act[k].addedAt,
              badStreak |-> IF KeyState(keyStates, k).online > 0
                            THEN 0 ELSE act[k].badStreak + 1]]
        evicted == { k \in DOMAIN act : stepped[k].badStreak >= topBLBadStreakLimit }
    IN  [active |-> [k \in (DOMAIN act) \ evicted |-> stepped[k]],
         evicted |-> evicted]

\* A faulty loop to compare with: the open slots are filled from the worst
\* candidate upwards
RECURSIVE FillLoopWorstFirst(_, _, _, _, _)
FillLoopWorstFirst(act, ranked, i, now, lim) ==
    IF i > Len(ranked) THEN act
    ELSE IF Cardinality(DOMAIN act) >= lim THEN act
    ELSE IF ranked[Len(ranked) + 1 - i].key \in DOMAIN act
    THEN FillLoopWorstFirst(act, ranked, i + 1, now, lim)
    ELSE FillLoopWorstFirst(Store(act, ranked[Len(ranked) + 1 - i].key,
                                  [item |-> ranked[Len(ranked) + 1 - i],
                                   addedAt |-> now, badStreak |-> 0]),
                            ranked, i + 1, now, lim)

\* A faulty loop to compare with: every unclaimed candidate is admitted, open
\* slot or not
RECURSIVE FillLoopUncapped(_, _, _, _, _)
FillLoopUncapped(act, ranked, i, now, lim) ==
    IF i > Len(ranked) THEN act
    ELSE IF ranked[i].key \in DOMAIN act
    THEN FillLoopUncapped(act, ranked, i + 1, now, lim)
    ELSE FillLoopUncapped(Store(act, ranked[i].key,
                                [item |-> ranked[i], addedAt |-> now, badStreak |-> 0]),
                          ranked, i + 1, now, lim)

\* reconcileActive, second loop: fill the open slots in rank order
RECURSIVE FillLoop(_, _, _, _, _)
FillLoop(act, ranked, i, now, lim) ==
    IF i > Len(ranked) THEN act
    ELSE IF Cardinality(DOMAIN act) >= lim THEN act
    ELSE IF ranked[i].key \in DOMAIN act THEN FillLoop(act, ranked, i + 1, now, lim)
    ELSE FillLoop(Store(act, ranked[i].key,
                        [item |-> ranked[i], addedAt |-> now, badStreak |-> 0]),
                  ranked, i + 1, now, lim)

\* reconcileActive, third loop: replace the worst replaceable entry.
\* st = [active, replaced]: the active set, and for the record the replacements
\* made so far (the entry removed, the candidate admitted)
RECURSIVE ReplaceLoop(_, _, _, _)
ReplaceLoop(st, ranked, i, now) ==
    IF i > Len(ranked) THEN st
    ELSE IF ranked[i].key \in DOMAIN st.active THEN ReplaceLoop(st, ranked, i + 1, now)
    ELSE
      LET worstKey == findWorstReplaceable(st.active, now)
      IN  IF worstKey = <<>> THEN st
          ELSE IF ~isSignificantImprovement(ranked[i].latency,
                                            st.active[worstKey].item.latency)
          THEN ReplaceLoop(st, ranked, i + 1, now)
          ELSE ReplaceLoop(
                 [active |-> Store(Delete(st.active, worstKey), ranked[i].key,
                                   [item |-> ranked[i], addedAt |-> now, badStreak |-> 0]),
                  replaced |-> st.replaced \cup
                                 {[key |-> worstKey, out |-> st.active[worstKey],
                                   in |-> ranked[i]]}],
                 ranked, i + 1, now)

\* byKey of reconcileActive: the first ranked entry of every key
ByKey(ranked) ==
    [k \in { ranked[i].key : i \in 1..Len(ranked) } |->
        ranked[CHOOSE i \in 1..Len(ranked) :
                  /\ ranked[i].key = k
                  /\ \A j \in 1..(i - 1) : ranked[j].key # k]]

\* reconcileActive: the new s.active, the new s.hadEmergency, the keys evicted;
\* for the record, the active set after the fill loop and the replacements
reconcileActive(act, emergency, ranked, keyStates, now, lim) ==
    LET streaks == StreakLoop(act, ByKey(ranked), keyStates)
        filled == FillLoop(streaks.active, ranked, 1, now, lim)
        swapped == ReplaceLoop([active |-> filled, replaced |-> {}], ranked, 1, now)
    IN  [active |-> swapped.active,
         hadEmergency |-> (emergency \/ streaks.evicted # {}),
         evicted |-> streaks.evicted,
         filled |-> filled,
         replaced |-> swapped.replaced]

\* activeRanked: the items of the active set in rank order, cut to the limit
activeRanked(act, lim) ==
    LET ranked == SortRanked({ act[k].item : k \in DOMAIN act })
    IN  IF Len(ranked) > lim THEN SubSeq(ranked, 1, lim) ELSE ranked

\* linksFromRanked: the sanitized source lines, the empty ones skipped
RECURSIVE linksFromRanked(_)
linksFromRanked(ranked) ==
    IF ranked = <<>> THEN <<>>
    ELSE LET line == sanitizeConfig(Head(ranked).proxy.src)
         IN  (IF line = <<>> THEN <<>> ELSE <<line>>) \o linksFromRanked(Tail(ranked))

\* A faulty decision to compare with: the proposed list is published whenever a
\* publish is due, empty or not
PublishDecisionUnguarded(pub, lastPub, proposed, emergency, now) ==
    IF Len(pub) = 0 \/ now - lastPub >= topBLBatchInterval \/ emergency
    THEN "publish"
    ELSE "nopublish"

\* Lines 778-791 of Next: keep the previous list when the proposed one is empty
\* and something is published; otherwise publish if nothing is published yet,
\* the batch interval has passed or an emergency is flagged.
PublishDecision(pub, lastPub, proposed, emergency, now) ==
    IF Len(proposed) = 0 /\ Len(pub) > 0 THEN "keep"
    ELSE IF /\ (Len(pub) = 0 \/ now - lastPub >= topBLBatchInterval \/ emergency)
            /\ Len(proposed) > 0
    THEN "publish"
    ELSE "nopublish"

\* A faulty test to compare with: more n/a answers than candidates are asked for
AllNAShortCircuitStrict(selection, pub) ==
    selection.totalBL > 0 /\ selection.naCount > selection.totalBL /\ Len(pub) > 0

\* Line 769 of Next: every counted candidate is n/a and something is published
AllNAShortCircuit(selection, pub) ==
    selection.totalBL > 0 /\ selection.naCount = selection.totalBL /\ Len(pub) > 0


\* newStableTopBLSelector: a limit <= 0 becomes 10
newStableTopBLSelector(lim) ==
    /\ limit = (IF lim <= 0 THEN DefaultSelectorLimit ELSE lim)
    /\ emaByKey = EmptyMap
    /\ active = EmptyMap
    /\ published = <<>>
    /\ lastPublished = ZeroTime
    /\ hadEmergency = FALSE

ConfiguredLimits == { 0, 1 }

\* The goroutines that call the selector and the remote manager concurrently
Goroutines == { 1, 2 }

\* A goroutine that is not inside Next
IdleNext ==
    [pc |-> "idle", list |-> <<>>, statusFn |-> <<>>, now |-> 0,
     selection |-> [proxies |-> <<>>], ranked |-> <<>>, ret |-> <<>>]

\* A goroutine that is not inside a call of the remote manager
IdleOp ==
    [fn |-> "none", pc |-> "idle", items |-> EmptyMap, err |-> FALSE, calls |-> 0,
     raced |-> 0]

\* The fields of the selector that Next reads and writes under s.mu
SelectorState ==
    [emaByKey |-> emaByKey, active |-> active, published |-> published,
     lastPublished |-> lastPublished, hadEmergency |-> hadEmergency]

\* No goroutine is inside Next or inside the remote manager, which has no
\* sources and has saved nothing
NoConcurrentCalls ==
    /\ selectorMu = 0
    /\ nextInv = [g \in Goroutines |-> IdleNext]
    /\ serial = [state |-> SelectorState, ret |-> [g \in Goroutines |-> <<>>],
                 order |-> <<>>]
    /\ managerMu = 0
    /\ sources = EmptyMap
    /\ savedState = EmptyMap
    /\ rmOp = [g \in Goroutines |-> IdleOp]

\* Nothing has been asked of the selector yet
NoInvocationYet ==
    /\ selNow = 0
    /\ selCalls = 0
    /\ returned = <<>>
    /\ lastPath = "none"
    /\ lastAllNA = FALSE
    /\ lastEvicted = {}
    /\ lastProposed = <<>>
    /\ missCount = EmptyMap
    /\ reconMiss = EmptyMap

SelInit ==
    /\ \E lim \in ConfiguredLimits : newStableTopBLSelector(lim)
    /\ NoInvocationYet
    /\ NoConcurrentCalls

\* No application has been recorded
NoCallRecorded ==
    /\ callArgs = [fn |-> "none"]
    /\ callResult = [fn |-> "none"]
    /\ callCount = 0

\* The descriptors handed to Next
SelA == [name |-> 1, hasBL |-> TRUE, hasCIDR |-> FALSE, sid |-> 1, src |-> <<"a">>]
SelB == [name |-> 2, hasBL |-> FALSE, hasCIDR |-> TRUE, sid |-> 2,
         src |-> <<"sp", "b", "tab">>]
SelC == [name |-> 3, hasBL |-> TRUE, hasCIDR |-> TRUE, sid |-> 3, src |-> <<"ctl">>]
SelU == [name |-> 4, hasBL |-> FALSE, hasCIDR |-> FALSE, sid |-> 4, src |-> <<"u">>]
SelE == [name |-> 5, hasBL |-> TRUE, hasCIDR |-> FALSE, sid |-> 5, src |-> <<"sp">>]
SelA2 == [name |-> 0, hasBL |-> TRUE, hasCIDR |-> TRUE, sid |-> 1, src |-> <<"a", "a">>]

ProxyInputs ==
    { <<>>, <<SelA, SelB>>, <<SelC>>, <<SelU, SelA, SelE, SelA2>> }

Sids == { 1, 2, 3, 4, 5 }

SelLatencies == { 120 * Millisecond, 200 * Millisecond }

StatusNA == [online |-> FALSE, latency |-> 0, err |-> TRUE]
StatusOffline == [online |-> FALSE, latency |-> 0, err |-> FALSE]
StatusOnline(lat) == [online |-> TRUE, latency |-> lat, err |-> FALSE]

\* The answers tried for a sid: both latencies for sid 2, the slower one for the
\* others
StatusVals(sid) ==
    { StatusNA, StatusOffline } \cup
    { StatusOnline(l) : l \in (IF sid = 2 THEN SelLatencies ELSE { 200 * Millisecond }) }

\* The sids Next looks up for a list
LookedUp(list) ==
    { list[i].sid : i \in { j \in 1..Len(list) :
                             /\ TrimSpace(list[j].src) # <<>>
                             /\ (list[j].hasBL \/ list[j].hasCIDR) } }

\* A status function answering with the values of r for the sids in its domain
\* and with an error for every other sid
StatusFnOf(r) == [sid \in Sids |-> IF sid \in DOMAIN r THEN r[sid] ELSE StatusNA]

\* The calls tried: a list with any answers for the sids Next looks up in it
\* (the answer for another sid is never read)
CallInputs ==
    UNION { { [list |-> l, statusFn |-> StatusFnOf(r)] : r \in { q \in [LookedUp(l) -> UNION { StatusVals(sid) : sid \in Sids }] :
                    \A sid \in LookedUp(l) : q[sid] \in StatusVals(sid) } } :
            l \in ProxyInputs }

NowSteps == { 0, topBLBatchInterval }

\* The key is in the active set and the list shows no online descriptor of it
NoOnlineObservation(list, statusFn, key) ==
    ~\E i \in 1..Len(list) :
        /\ TrimSpace(list[i].src) # <<>>
        /\ (list[i].hasBL \/ list[i].hasCIDR)
        /\ dedupKey(list[i]) = key
        /\ ~statusFn[list[i].sid].err
        /\ statusFn[list[i].sid].online

\* At least one tagged candidate, and the lookup fails for every one of them
AllTaggedNA(list, statusFn) ==
    LET tagged == { i \in 1..Len(list) :
                      /\ TrimSpace(list[i].src) # <<>>
                      /\ (list[i].hasBL \/ list[i].hasCIDR) }
    IN  tagged # {} /\ \A i \in tagged : statusFn[list[i].sid].err

\* consecutive misses of the keys that were active when the invocation began
Misses(prev, list, statusFn) ==
    LET missed == { k \in DOMAIN active : NoOnlineObservation(list, statusFn, k) }
    IN  [k \in missed |->
           IF k \in DOMAIN prev /\ prev[k] < 2 THEN prev[k] + 1
           ELSE IF k \in DOMAIN prev THEN prev[k] ELSE 1]

\* Next after the all-n/a test: lines 773-793
Reconcile(selection, list, statusFn, now) ==
    \E smoothed \in { applyEMA(emaByKey, selection.proxies) } :
      \E rec \in { reconcileActive(active, hadEmergency, smoothed.ranked,
                                   selection.keyStates, now, limit) } :
        \E proposedLinks \in { linksFromRanked(activeRanked(rec.active, limit)) } :
          \E decision \in { PublishDecision(published, lastPublished, proposedLinks,
                                             rec.hadEmergency, now) } :
            /\ emaByKey' = smoothed.emaByKey
            /\ active' = rec.active
            /\ lastEvicted' = rec.evicted
            /\ lastProposed' = proposedLinks
            /\ lastPath' = decision
            /\ reconMiss' = Misses(reconMiss, list, statusFn)
            /\ hadEmergency' = (IF decision = "keep" THEN rec.hadEmergency ELSE FALSE)
            /\ published' = (IF decision = "publish" THEN proposedLinks ELSE published)
            /\ lastPublished' = (IF decision = "publish" THEN now ELSE lastPublished)
            /\ returned' = (IF decision = "publish" THEN proposedLinks ELSE published)

\* A faulty Next to compare with: the all-n/a test still returns the published
\* list, but only after the streaks of the active set have been stepped
SelectorNextStreaksAdvance(list, statusFn, now) ==
    \E selection \in { selectTopBLAndCIDRByLatency(list, statusFn, topBLQuota, topCIDRQuota) } :
      /\ selNow' = now
      /\ selCalls' = selCalls + 1
      /\ lastAllNA' = AllTaggedNA(list, statusFn)
      /\ missCount' = Misses(missCount, list, statusFn)
      /\ limit' = limit
      /\ IF AllNAShortCircuit(selection, published)
         THEN /\ returned' = published
              /\ lastPath' = "shortcircuit"
              /\ lastEvicted' = {}
              /\ lastProposed' = <<>>
              /\ reconMiss' = EmptyMap
              /\ active' = StreakLoop(active, EmptyMap, selection.keyStates).active
              /\ UNCHANGED << emaByKey, published, lastPublished, hadEmergency >>
         ELSE Reconcile(selection, list, statusFn, now)

\* stableTopBLSelector.Next(proxies, statusFn, now)
SelectorNext(list, statusFn, now) ==
    \E selection \in { selectTopBLAndCIDRByLatency(list, statusFn, topBLQuota, topCIDRQuota) } :
      /\ selNow' = now
      /\ selCalls' = selCalls + 1
      /\ lastAllNA' = AllTaggedNA(list, statusFn)
      /\ missCount' = Misses(missCount, list, statusFn)
      /\ limit' = limit
      /\ IF AllNAShortCircuit(selection, published)
         THEN /\ returned' = published
              /\ lastPath' = "shortcircuit"
              /\ lastEvicted' = {}
              /\ lastProposed' = <<>>
              /\ reconMiss' = EmptyMap
              /\ UNCHANGED << emaByKey, active, published, lastPublished, hadEmergency >>
         ELSE Reconcile(selection, list, statusFn, now)

\* One invocation of Next by the subscription handler
NextCall ==
    /\ selCalls < MaxCalls
    /\ \E call \in CallInputs :
         \E step \in NowSteps :
           SelectorNext(call.list, call.statusFn, selNow + step)
    /\ UNCHANGED << checkerVars, fnVars, concVars, rmVars >>


Next ==
    \/ CheckAllBegin
    \/ CheckAllSkip
    \/ CheckAllSnapshot
    \/ CheckAllDispatch
    \/ CheckAllEnd
    \/ \E i \in Slots : ProbeRun(i)
    \/ \E i \in Slots : FailStatusCheck(i)
    \/ \E i \in Slots : FailStatusStore(i)
    \/ \E i \in Slots : FailStatusMark(i)
    \/ \E i \in Slots : FailLatencyCheck(i)
    \/ \E i \in Slots : FailLatencyStore(i)
    \/ \E i \in Slots : FailLatencyMark(i)
    \/ \E i \in Slots : SuccessCheck(i)
    \/ \E i \in Slots : SuccessLatencyStore(i)
    \/ \E i \in Slots : SuccessStatusStore(i)
    \/ \E i \in Slots : SuccessBadSince(i)
    \/ UpdateBegin
    \/ UpdateClearCurrent
    \/ UpdateReturn
    \/ CheckProxy
    \/ ClearMetrics
    \/ Query

vars == << checkerVars, selVars, fnVars, concVars, rmVars >>

\* The checker and the selector as main() constructs them
Init ==
    /\ CheckerInit
    /\ newStableTopBLSelector(topBLQuota + topCIDRQuota)
    /\ NoInvocationYet
    /\ NoConcurrentCalls
    /\ NoCallRecorded

\* The checker under concurrent batches and updates; the selector is not called.
Spec == Init /\ [][Next]_vars

\* A selector of any configured limit beside a checker without proxies
SelectorInit ==
    /\ NewProxyChecker(<<>>, "ip", 0)
    /\ NoCallInProgress
    /\ SelInit
    /\ NoCallRecorded

\* The selector called again and again; the checker is left alone.
SelSpec == SelectorInit /\ [][NextCall]_vars

(***************************************************************************)
(* applyEMA on its own: a selector whose EMA map holds what earlier         *)
(* observations left, and one application after another                    *)
(***************************************************************************)
MaxObs == 3

\* The raw latencies of the candidates applyEMA is given
EmaLatencies == { 100 * Millisecond, 200 * Millisecond }

\* The maps the applications start from: nothing observed yet, or SelB observed
\* once, online with a latency of zero (which seeds its EMA with 0)
StoredEMAs == { EmptyMap, Store(EmptyMap, dedupKey(SelB), 0) }

\* The lists given to applyEMA: selection results over SelA and SelB, one entry
\* per key, in rank order
EmaInputs ==
    { SortRanked({ [proxy |-> p, latency |-> lat[p.sid], key |-> dedupKey(p)] : p \in S }) :
        S \in (SUBSET { SelA, SelB }) \ { {} }, lat \in [{ SelA.sid, SelB.sid } -> EmaLatencies] }

EmaInit ==
    /\ NewProxyChecker(<<>>, "ip", 0)
    /\ NoCallInProgress
    /\ limit = DefaultSelectorLimit
    /\ emaByKey \in StoredEMAs
    /\ active = EmptyMap
    /\ published = <<>>
    /\ lastPublished = ZeroTime
    /\ hadEmergency = FALSE
    /\ NoInvocationYet
    /\ NoConcurrentCalls
    /\ NoCallRecorded

\* s.applyEMA(proxies)
ApplyEMACall ==
    /\ callCount < MaxObs
    /\ \E list \in EmaInputs :
         \E res \in { applyEMA(emaByKey, list) } :
           /\ emaByKey' = res.emaByKey
           /\ callArgs' = [fn |-> "applyEMA", emaByKey |-> emaByKey, proxies |-> list]
           /\ callResult' = [fn |-> "applyEMA", ranked |-> res.ranked]
    /\ callCount' = callCount + 1
    /\ UNCHANGED << limit, active, published, lastPublished, hadEmergency, selNow,
                    selCalls, returned, lastPath, lastAllNA, lastEvicted,
                    lastProposed, missCount, reconMiss >>
    /\ UNCHANGED << checkerVars, concVars, rmVars >>

EmaSpec == EmaInit /\ [][ApplyEMACall]_vars

(***************************************************************************)
(* selectTopBLAndCIDRByLatency on its own, applied to lists, answers and    *)
(* quotas drawn from the sets below                                        *)
(***************************************************************************)
MaxQuota == 2

\* Two more descriptors: a second BL-only and a second CIDR-only one
SelA3 == [name |-> 6, hasBL |-> TRUE, hasCIDR |-> FALSE, sid |-> 6, src |-> <<"c">>]
SelB2 == [name |-> 7, hasBL |-> FALSE, hasCIDR |-> TRUE, sid |-> 7, src |-> <<"d">>]

SelectLists ==
    { <<>>,
      << SelA, SelA2, SelB >>,
      << SelA, SelA3, SelB, SelB2 >>,
      << SelC, SelA, SelB, SelA3, SelB2 >>,
      << SelU, SelE, SelA2, SelA, SelC >> }

SelectSids == { 1, 2, 3, 4, 5, 6, 7 }

\* The answers tried for a sid: a failing lookup for sid 1 only
SelectVals(sid) ==
    { StatusOffline } \cup { StatusOnline(l) : l \in SelLatencies }
      \cup (IF sid = 1 THEN { StatusNA } ELSE {})

\* A status function answering with the values of r for the sids in its domain
\* and "online" for every other sid
SelectFnOf(r) ==
    [sid \in SelectSids |->
        IF sid \in DOMAIN r THEN r[sid] ELSE StatusOnline(120 * Millisecond)]

\* The quota scenario: 12 BL-only and 12 CIDR-only descriptors, all online,
\* the i-th of either kind at 10+i ms, quotas (10, 10)
QuotaScenario ==
    [list |-> [i \in 1..24 |->
                 [name |-> i, hasBL |-> (i <= 12), hasCIDR |-> (i > 12), sid |-> i,
                  src |-> <<"a">>]],
     statusFn |-> [i \in 1..24 |-> StatusOnline((10 + ((i - 1) % 12)) * Millisecond)],
     blLimit |-> topBLQuota,
     cidrLimit |-> topCIDRQuota]

\* The applications tried for the lists given: any answers for the sids looked
\* up and any quotas from -1 to MaxQuota, and beside them the quota scenario
SelectInputs(lists) ==
    { QuotaScenario } \cup
    UNION { { [list |-> l, statusFn |-> SelectFnOf(r), blLimit |-> qa, cidrLimit |-> qb] :
                r \in { q \in [LookedUp(l) -> UNION { SelectVals(sid) : sid \in SelectSids }] :
                          \A sid \in LookedUp(l) : q[sid] \in SelectVals(sid) },
                qa \in (0 - 1)..MaxQuota, qb \in (0 - 1)..MaxQuota } :
            l \in lists }

SelectInit ==
    /\ NewProxyChecker(<<>>, "ip", 0)
    /\ NoCallInProgress
    /\ newStableTopBLSelector(topBLQuota + topCIDRQuota)
    /\ NoInvocationYet
    /\ NoConcurrentCalls
    /\ NoCallRecorded

\* selectTopBLAndCIDRByLatency(proxies, statusFn, blLimit, cidrLimit); the
\* function keeps no state, so a behaviour applies it once
SelectCall ==
    /\ callCount = 0
    /\ callCount' = callCount + 1
    /\ \E in \in SelectInputs(SelectLists) :
         /\ callArgs' = [fn |-> "select", list |-> in.list, statusFn |-> in.statusFn,
                         blLimit |-> in.blLimit, cidrLimit |-> in.cidrLimit]
         /\ callResult' = [fn |-> "select",
                           selection |-> selectTopBLAndCIDRByLatency(
                                           in.list, in.statusFn, in.blLimit, in.cidrLimit)]
    /\ UNCHANGED << selVars, checkerVars, concVars, rmVars >>

SelectSpec == SelectInit /\ [][SelectCall]_vars

(***************************************************************************)
(* The selector under the hysteresis scenario: an incumbent (SelA) and a   *)
(* challenger (SelA3) beside an untagged and a blank descriptor, every     *)
(* invocation recorded with what it was given and what its steps computed  *)
(***************************************************************************)
MaxHoldCalls == 3

HoldLimits == { 1, 2 }

HoldList == << SelA3, SelU, SelE, SelA >>

\* The answers of one invocation: those given for the incumbent and the
\* challenger; the untagged and the blank descriptor are always online
HoldFn(incumbent, challenger) ==
    [sid \in SelectSids |->
        IF sid = SelA.sid THEN incumbent
        ELSE IF sid = SelA3.sid THEN challenger
        ELSE StatusOnline(120 * Millisecond)]

\* The invocations tried: the incumbent alone (online at 200 ms, or offline),
\* and beside the challenger with the latencies of the scenario, with equal
\* latencies, with a failing lookup, and offline
HoldInputs ==
    { [list |-> << SelA >>,
       statusFn |-> HoldFn(StatusOnline(200 * Millisecond), StatusOffline)],
      [list |-> << SelA >>, statusFn |-> HoldFn(StatusOffline, StatusOffline)],
      [list |-> HoldList,
       statusFn |-> HoldFn(StatusOnline(200 * Millisecond),
                           StatusOnline(180 * Millisecond))],
      [list |-> HoldList,
       statusFn |-> HoldFn(StatusOnline(250 * Millisecond),
                           StatusOnline(120 * Millisecond))],
      [list |-> HoldList,
       statusFn |-> HoldFn(StatusOnline(200 * Millisecond),
                           StatusOnline(200 * Millisecond))],
      [list |-> HoldList,
       statusFn |-> HoldFn(StatusOnline(200 * Millisecond), StatusNA)],
      [list |-> HoldList,
       statusFn |-> HoldFn(StatusOffline, StatusOnline(120 * Millisecond))] }

HoldInit ==
    /\ NewProxyChecker(<<>>, "ip", 0)
    /\ NoCallInProgress
    /\ \E lim \in HoldLimits : newStableTopBLSelector(lim)
    /\ NoInvocationYet
    /\ NoConcurrentCalls
    /\ NoCallRecorded

\* What the steps of Next compute from the selector's state: the selection,
\* and unless Next returns at the all-n/a test, the EMA-ranked list, the active
\* set after the fill loop, the replacements and the ranked active set; with
\* them the published list and the active set Next found
NextSteps(list, statusFn, now) ==
    LET selection == selectTopBLAndCIDRByLatency(list, statusFn, topBLQuota, topCIDRQuota)
        smoothed == applyEMA(emaByKey, selection.proxies)
        rec == reconcileActive(active, hadEmergency, smoothed.ranked,
                               selection.keyStates, now, limit)
    IN  IF AllNAShortCircuit(selection, published)
        THEN [fn |-> "Next", reconciled |-> FALSE, selection |-> selection.proxies,
              ranked |-> <<>>, filled |-> EmptyMap, replaced |-> {},
              proposed |-> <<>>, before |-> published, activeBefore |-> active]
        ELSE [fn |-> "Next", reconciled |-> TRUE, selection |-> selection.proxies,
              ranked |-> smoothed.ranked, filled |-> rec.filled,
              replaced |-> rec.replaced,
              proposed |-> activeRanked(rec.active, limit),
              before |-> published, activeBefore |-> active]

\* One invocation of Next, recorded
HoldCall ==
    /\ callCount < MaxHoldCalls
    /\ callCount' = callCount + 1
    /\ \E call \in HoldInputs :
         \E step \in NowSteps :
           /\ SelectorNext(call.list, call.statusFn, selNow + step)
           /\ callArgs' = [fn |-> "Next", list |-> call.list,
                           statusFn |-> call.statusFn, now |-> selNow + step]
           /\ callResult' = NextSteps(call.list, call.statusFn, selNow + step)
    /\ UNCHANGED << checkerVars, concVars, rmVars >>

HoldSpec == HoldInit /\ [][HoldCall]_vars

(***************************************************************************)
(* Next called by two goroutines at once: each request of the subscription *)
(* handler runs in its own goroutine                                       *)
(***************************************************************************)
MaxConcCalls == 2

\* The invocations tried: one candidate online, offline or unavailable, and
\* the incumbent beside a faster challenger
ConcInputs ==
    { [list |-> << SelA >>,
       statusFn |-> HoldFn(StatusOnline(200 * Millisecond), StatusOffline)],
      [list |-> << SelA >>, statusFn |-> HoldFn(StatusOffline, StatusOffline)],
      [list |-> << SelA >>, statusFn |-> HoldFn(StatusNA, StatusNA)],
      [list |-> HoldList,
       statusFn |-> HoldFn(StatusOnline(250 * Millisecond),
                           StatusOnline(120 * Millisecond))] }

\* Lines 768-793 of Next as one function of the selector's fields: the fields
\* after the invocation and the list it returns
NextSerial(st, lim, selection, now) ==
    IF AllNAShortCircuit(selection, st.published)
    THEN [state |-> st, ret |-> st.published]
    ELSE LET smoothed == applyEMA(st.emaByKey, selection.proxies)
             rec == reconcileActive(st.active, st.hadEmergency, smoothed.ranked,
                                    selection.keyStates, now, lim)
             proposedLinks == linksFromRanked(activeRanked(rec.active, lim))
             decision == PublishDecision(st.published, st.lastPublished,
                                         proposedLinks, rec.hadEmergency, now)
             pub == IF decision = "publish" THEN proposedLinks ELSE st.published
         IN  [state |-> [emaByKey |-> smoothed.emaByKey,
                         active |-> rec.active,
                         published |-> pub,
                         lastPublished |-> IF decision = "publish" THEN now
                                           ELSE st.lastPublished,
                         hadEmergency |-> IF decision = "keep" THEN rec.hadEmergency
                                          ELSE FALSE],
              ret |-> pub]

ConcInit ==
    /\ NewProxyChecker(<<>>, "ip", 0)
    /\ NoCallInProgress
    /\ \E lim \in HoldLimits : newStableTopBLSelector(lim)
    /\ NoInvocationYet
    /\ NoConcurrentCalls
    /\ NoCallRecorded

\* The handler reads time.Now() and calls Next, which computes the selection
\* from its arguments before it asks for s.mu (line 763)
NextBegin(g) ==
    /\ nextInv[g].pc = "idle"
    /\ selCalls < MaxConcCalls
    /\ \E call \in ConcInputs, step \in NowSteps :
         /\ selNow' = selNow + step
         /\ nextInv' = [nextInv EXCEPT ![g] =
              [pc |-> "lock", list |-> call.list, statusFn |-> call.statusFn,
               now |-> selNow + step,
               selection |-> selectTopBLAndCIDRByLatency(call.list, call.statusFn,
                                                         topBLQuota, topCIDRQuota),
               ranked |-> <<>>, ret |-> <<>>]]
    /\ selCalls' = selCalls + 1
    /\ UNCHANGED << limit, emaByKey, active, published, lastPublished, hadEmergency,
                    returned, lastPath, lastAllNA, lastEvicted, lastProposed,
                    missCount, reconMiss >>
    /\ UNCHANGED << selectorMu, serial >>
    /\ UNCHANGED << checkerVars, fnVars, rmVars >>

\* A faulty mutex to compare with: Lock never waits
SelectorMuFreeAlways == TRUE

\* s.mu.Lock() can return: no goroutine holds s.mu
SelectorMuFree == selectorMu = 0

\* s.mu.Lock() returns (line 765); the serial execution runs this invocation now
NextLock(g) ==
    /\ nextInv[g].pc = "lock"
    /\ SelectorMuFree
    /\ selectorMu' = g
    /\ nextInv' = [nextInv EXCEPT ![g].pc = "check"]
    /\ \E r \in { NextSerial(serial.state, limit, nextInv[g].selection, nextInv[g].now) } :
         serial' = [state |-> r.state,
                    ret |-> [serial.ret EXCEPT ![g] = r.ret],
                    order |-> Append(serial.order, g)]
    /\ UNCHANGED << selVars, checkerVars, fnVars, rmVars >>

\* Line 769: the all-n/a test
NextShortCircuit(g) ==
    /\ nextInv[g].pc = "check"
    /\ nextInv' = [nextInv EXCEPT ![g] =
          IF AllNAShortCircuit(nextInv[g].selection, published)
          THEN [@ EXCEPT !.pc = "unlock", !.ret = published]
          ELSE [@ EXCEPT !.pc = "ema"]]
    /\ UNCHANGED << selectorMu, serial >>
    /\ UNCHANGED << selVars, checkerVars, fnVars, rmVars >>

\* Line 773: ranked := s.applyEMA(selection.proxies)
NextApplyEMA(g) ==
    /\ nextInv[g].pc = "ema"
    /\ \E smoothed \in { applyEMA(emaByKey, nextInv[g].selection.proxies) } :
         /\ emaByKey' = smoothed.emaByKey
         /\ nextInv' = [nextInv EXCEPT ![g].pc = "reconcile",
                                       ![g].ranked = smoothed.ranked]
    /\ UNCHANGED << limit, active, published, lastPublished, hadEmergency, selNow,
                    selCalls, returned, lastPath, lastAllNA, lastEvicted,
                    lastProposed, missCount, reconMiss >>
    /\ UNCHANGED << selectorMu, serial >>
    /\ UNCHANGED << checkerVars, fnVars, rmVars >>

\* Line 774: s.reconcileActive(ranked, selection.keyStates, now)
NextReconcile(g) ==
    /\ nextInv[g].pc = "reconcile"
    /\ \E rec \in { reconcileActive(active, hadEmergency, nextInv[g].ranked,
                                   nextInv[g].selection.keyStates,
                                   nextInv[g].now, limit) } :
         /\ active' = rec.active
         /\ hadEmergency' = rec.hadEmergency
    /\ nextInv' = [nextInv EXCEPT ![g].pc = "publish"]
    /\ UNCHANGED << limit, emaByKey, published, lastPublished, selNow, selCalls,
                    returned, lastPath, lastAllNA, lastEvicted, lastProposed,
                    missCount, reconMiss >>
    /\ UNCHANGED << selectorMu, serial >>
    /\ UNCHANGED << checkerVars, fnVars, rmVars >>

\* Lines 776-793: the proposed list, the publish decision and the returned copy
NextPublish(g) ==
    /\ nextInv[g].pc = "publish"
    /\ \E proposedLinks \in { linksFromRanked(activeRanked(active, limit)) } :
         \E decision \in { PublishDecision(published, lastPublished, proposedLinks,
                                            hadEmergency, nextInv[g].now) } :
           /\ hadEmergency' = (IF decision = "keep" THEN hadEmergency ELSE FALSE)
           /\ published' = (IF decision = "publish" THEN proposedLinks ELSE published)
           /\ lastPublished' = (IF decision = "publish" THEN nextInv[g].now
                                ELSE lastPublished)
           /\ nextInv' = [nextInv EXCEPT
                            ![g].pc = "unlock",
                            ![g].ret = IF decision = "publish" THEN proposedLinks
                                       ELSE published]
    /\ UNCHANGED << limit, emaByKey, active, selNow, selCalls, returned, lastPath,
                    lastAllNA, lastEvicted, lastProposed, missCount, reconMiss >>
    /\ UNCHANGED << selectorMu, serial >>
    /\ UNCHANGED << checkerVars, fnVars, rmVars >>

\* The deferred s.mu.Unlock() (line 766) and the return
NextUnlock(g) ==
    /\ nextInv[g].pc = "unlock"
    /\ selectorMu' = 0
    /\ nextInv' = [nextInv EXCEPT ![g].pc = "idle"]
    /\ UNCHANGED serial
    /\ UNCHANGED << selVars, checkerVars, fnVars, rmVars >>

ConcNext ==
    \/ \E g \in Goroutines : NextBegin(g)
    \/ \E g \in Goroutines : NextLock(g)
    \/ \E g \in Goroutines : NextShortCircuit(g)
    \/ \E g \in Goroutines : NextApplyEMA(g)
    \/ \E g \in Goroutines : NextReconcile(g)
    \/ \E g \in Goroutines : NextPublish(g)
    \/ \E g \in Goroutines : NextUnlock(g)

ConcSpec == ConcInit /\ [][ConcNext]_vars

(***************************************************************************)
(* RemoteManager: AddURLs, CheckUpdates and RemoveByID called by two        *)
(* goroutines (the API handlers and the update loop)                       *)
(***************************************************************************)
MaxRemoteCalls == 2

\* The normalized URLs given to AddURLs
RemoteURLs == { "u1", "u2" }

\* hashURL: the id of a source is the digest of its URL
hashURL(u) == << "sha1", u >>

\* The calls tried: AddURLs with one URL or two, CheckUpdates, and RemoveByID
\* of the first URL's source
RemoteCallInputs ==
    { [fn |-> "AddURLs", arg |-> { "u1" }],
      [fn |-> "AddURLs", arg |-> RemoteURLs],
      [fn |-> "CheckUpdates", arg |-> {}],
      [fn |-> "RemoveByID", arg |-> hashURL("u1")] }

\* The RemoteSource AddURLs appends for a URL: nothing downloaded yet
NewSource(u) == [id |-> hashURL(u), url |-> u, lastUpdated |-> FALSE]

\* What m.download can leave in the caller's copies: each one updated or not
Downloaded(items) ==
    { [id \in DOMAIN items |-> [items[id] EXCEPT !.lastUpdated = @ \/ done[id]]] :
        done \in [DOMAIN items -> BOOLEAN] }

\* m.mu.Lock() can return: no goroutine holds m.mu
ManagerMuFree == managerMu = 0

\* The number of manager calls begun so far
RemoteCalls == rmOp[1].calls + rmOp[2].calls

\* A goroutine calls AddURLs(urls), CheckUpdates() or RemoveByID(id); the first
\* statement of each is m.mu.Lock()
RemoteBegin(g) ==
    /\ rmOp[g].pc = "idle"
    /\ RemoteCalls < MaxRemoteCalls
    /\ \E call \in RemoteCallInputs :
         rmOp' = [rmOp EXCEPT ![g] =
                    [fn |-> call.fn, pc |-> "lock", arg |-> call.arg,
                     items |-> EmptyMap, err |-> FALSE, calls |-> rmOp[g].calls + 1,
                     raced |-> 0]]
    /\ UNCHANGED << managerMu, sources, savedState >>
    /\ UNCHANGED << checkerVars, selVars, fnVars, concVars >>

\* m.mu.Lock() returns at the head of AddURLs, CheckUpdates or RemoveByID
RemoteLock(g) ==
    /\ rmOp[g].pc = "lock"
    /\ ManagerMuFree
    /\ managerMu' = g
    /\ rmOp' = [rmOp EXCEPT ![g].pc =
                  IF rmOp[g].fn = "AddURLs" THEN "add_append"
                  ELSE IF rmOp[g].fn = "CheckUpdates" THEN "chk_copy"
                  ELSE "rm_remove"]
    /\ UNCHANGED << sources, savedState >>
    /\ UNCHANGED << checkerVars, selVars, fnVars, concVars >>

\* AddURLs under the mutex: the URLs not yet among the sources are appended and
\* the state is saved, which can fail
AddURLsAppend(g) ==
    /\ rmOp[g].pc = "add_append"
    /\ \E added \in { [id \in { hashURL(u) : u \in { v \in rmOp[g].arg :
                                   hashURL(v) \notin DOMAIN sources } } |->
                        NewSource(id[2])] } :
         \E all \in { [id \in DOMAIN sources \cup DOMAIN added |->
                        IF id \in DOMAIN added THEN added[id] ELSE sources[id]] } :
           \E failed \in BOOLEAN :
             /\ sources' = all
             /\ savedState' = (IF failed THEN savedState ELSE all)
             /\ rmOp' = [rmOp EXCEPT ![g].pc = "add_unlock", ![g].items = added,
                                     ![g].err = failed]
    /\ UNCHANGED managerMu
    /\ UNCHANGED << checkerVars, selVars, fnVars, concVars >>

\* A faulty release to compare with: AddURLs keeps the mutex after the save
MuAfterSaveHeld(g) == g

\* m.mu.Unlock() after saveLocked in AddURLs, on the error path and on the
\* normal path
MuAfterSave(g) == 0

\* AddURLs releases the mutex and either returns the save error or goes on to
\* download
AddURLsUnlock(g) ==
    /\ rmOp[g].pc = "add_unlock"
    /\ managerMu' = MuAfterSave(g)
    /\ rmOp' = [rmOp EXCEPT ![g].pc = IF rmOp[g].err THEN "idle" ELSE "download"]
    /\ UNCHANGED << sources, savedState >>
    /\ UNCHANGED << checkerVars, selVars, fnVars, concVars >>

\* CheckUpdates under the mutex: the copy of m.state.Sources
CheckUpdatesCopy(g) ==
    /\ rmOp[g].pc = "chk_copy"
    /\ rmOp' = [rmOp EXCEPT ![g].pc = "chk_unlock", ![g].items = sources]
    /\ UNCHANGED << managerMu, sources, savedState >>
    /\ UNCHANGED << checkerVars, selVars, fnVars, concVars >>

\* CheckUpdates releases the mutex before it downloads
CheckUpdatesUnlock(g) ==
    /\ rmOp[g].pc = "chk_unlock"
    /\ managerMu' = 0
    /\ rmOp' = [rmOp EXCEPT ![g].pc = "download"]
    /\ UNCHANGED << sources, savedState >>
    /\ UNCHANGED << checkerVars, selVars, fnVars, concVars >>

\* The download loop of AddURLs and CheckUpdates: m.download works on the
\* caller's copies and takes no lock
RemoteDownload(g) ==
    /\ rmOp[g].pc = "download"
    /\ \E items \in Downloaded(rmOp[g].items) :
         rmOp' = [rmOp EXCEPT ![g].pc = "merge_lock", ![g].items = items]
    /\ UNCHANGED << managerMu, sources, savedState >>
    /\ UNCHANGED << checkerVars, selVars, fnVars, concVars >>

\* mergeDownloaded: m.mu.Lock() returns
MergeLock(g) ==
    /\ rmOp[g].pc = "merge_lock"
    /\ ManagerMuFree
    /\ managerMu' = g
    /\ rmOp' = [rmOp EXCEPT ![g].pc = "merge"]
    /\ UNCHANGED << sources, savedState >>
    /\ UNCHANGED << checkerVars, selVars, fnVars, concVars >>

\* A faulty merge to compare with: every copy of the caller is put into the
\* state, whether the state still holds its source or not
MergeDownloadedAppending(g) ==
    /\ rmOp[g].pc = "merge"
    /\ sources' = [id \in DOMAIN sources \cup DOMAIN rmOp[g].items |->
                     IF id \in DOMAIN rmOp[g].items THEN rmOp[g].items[id]
                     ELSE sources[id]]
    /\ rmOp' = [rmOp EXCEPT ![g].pc = "merge_unlock"]
    /\ UNCHANGED << managerMu, savedState >>
    /\ UNCHANGED << checkerVars, selVars, fnVars, concVars >>

\* mergeDownloaded: the sources still in the state take the caller's copies
MergeDownloaded(g) ==
    /\ rmOp[g].pc = "merge"
    /\ sources' = [id \in DOMAIN sources |->
                     IF id \in DOMAIN rmOp[g].items THEN rmOp[g].items[id]
                     ELSE sources[id]]
    /\ rmOp' = [rmOp EXCEPT ![g].pc = "merge_unlock"]
    /\ UNCHANGED << managerMu, savedState >>
    /\ UNCHANGED << checkerVars, selVars, fnVars, concVars >>

\* mergeDownloaded: the deferred m.mu.Unlock() and the return to the caller
MergeUnlock(g) ==
    /\ rmOp[g].pc = "merge_unlock"
    /\ managerMu' = 0
    /\ rmOp' = [rmOp EXCEPT ![g].pc = IF rmOp[g].fn = "AddURLs" THEN "add_save"
                                      ELSE "chk_lock"]
    /\ UNCHANGED << sources, savedState >>
    /\ UNCHANGED << checkerVars, selVars, fnVars, concVars >>

\* What a save writes: the state as it is, or nothing when the write fails.
\* A save made while another goroutine is changing m.state.Sources under the
\* mutex races with it and may write any part of the list.
SaveOutcomes(g) ==
    { sources, savedState } \cup
    (IF \E h \in Goroutines \ { g } :
           rmOp[h].pc \in { "add_append", "merge", "rm_remove" }
     THEN { [id \in S |-> sources[id]] : S \in SUBSET DOMAIN sources }
     ELSE {})

\* The last statement of AddURLs before it returns: _ = m.saveLocked(), called
\* without the mutex
AddURLsSave(g) ==
    /\ rmOp[g].pc = "add_save"
    /\ savedState' \in SaveOutcomes(g)
    /\ rmOp' = [rmOp EXCEPT ![g].pc = "idle"]
    /\ UNCHANGED << managerMu, sources >>
    /\ UNCHANGED << checkerVars, selVars, fnVars, concVars >>

\* CheckUpdates after the merge: m.mu.Lock() returns
CheckUpdatesLock(g) ==
    /\ rmOp[g].pc = "chk_lock"
    /\ ManagerMuFree
    /\ managerMu' = g
    /\ rmOp' = [rmOp EXCEPT ![g].pc = "chk_save"]
    /\ UNCHANGED << sources, savedState >>
    /\ UNCHANGED << checkerVars, selVars, fnVars, concVars >>

\* CheckUpdates: err := m.saveLocked(); m.mu.Unlock(); return
CheckUpdatesSave(g) ==
    /\ rmOp[g].pc = "chk_save"
    /\ \E failed \in BOOLEAN :
         /\ savedState' = (IF failed THEN savedState ELSE sources)
         /\ rmOp' = [rmOp EXCEPT ![g].pc = "idle", ![g].err = failed]
    /\ managerMu' = 0
    /\ UNCHANGED sources
    /\ UNCHANGED << checkerVars, selVars, fnVars, concVars >>

\* For the record: the number of the other goroutine's call when that call
\* holds a copy of the source `id` of the state and is downloading it or is
\* about to merge it; 0 when there is no such call
InFlightCallOf(g, id) ==
    IF \E h \in Goroutines \ { g } :
         /\ rmOp[h].pc \in { "download", "merge_lock" }
         /\ id \in DOMAIN rmOp[h].items
         /\ id \in DOMAIN sources
    THEN rmOp[CHOOSE h \in Goroutines \ { g } : TRUE].calls
    ELSE 0

\* RemoveByID under the mutex: the source is dropped, the state saved, and the
\* deferred m.mu.Unlock() runs
RemoveByID(g) ==
    /\ rmOp[g].pc = "rm_remove"
    /\ \E kept \in { [id \in DOMAIN sources \ { rmOp[g].arg } |-> sources[id]] } :
         \E failed \in BOOLEAN :
           /\ sources' = kept
           /\ savedState' = (IF failed THEN savedState ELSE kept)
    /\ managerMu' = 0
    /\ rmOp' = [rmOp EXCEPT ![g].pc = "idle",
                            ![g].raced = InFlightCallOf(g, rmOp[g].arg)]
    /\ UNCHANGED << checkerVars, selVars, fnVars, concVars >>

RemoteInit ==
    /\ NewProxyChecker(<<>>, "ip", 0)
    /\ NoCallInProgress
    /\ newStableTopBLSelector(topBLQuota + topCIDRQuota)
    /\ NoInvocationYet
    /\ NoConcurrentCalls
    /\ NoCallRecorded

\* The statements of goroutine g's call after its first
RemoteRun(g) ==
    \/ RemoteLock(g)
    \/ AddURLsAppend(g)
    \/ AddURLsUnlock(g)
    \/ CheckUpdatesCopy(g)
    \/ CheckUpdatesUnlock(g)
    \/ RemoteDownload(g)
    \/ MergeLock(g)
    \/ MergeDownloaded(g)
    \/ MergeUnlock(g)
    \/ AddURLsSave(g)
    \/ CheckUpdatesLock(g)
    \/ CheckUpdatesSave(g)
    \/ RemoveByID(g)

RemoteNext == \E g \in Goroutines : RemoteBegin(g) \/ RemoteRun(g)

RemoteSpec == RemoteInit /\ [][RemoteNext]_vars

\* A goroutine that can take a step of its call takes one in the end: the
\* scheduler runs every runnable goroutine
RemoteLiveSpec == RemoteSpec /\ \A g \in Goroutines : WF_vars(RemoteRun(g))

(***************************************************************************)
(* The remote manager after load() has read a state file                   *)
(***************************************************************************)
\* The sources a state file holds: none, the first URL's, or both, each
\* downloaded before
StateFiles ==
    { [id \in { hashURL(u) : u \in S } |-> [NewSource(id[2]) EXCEPT !.lastUpdated = TRUE]] :
        S \in { {}, { "u1" }, RemoteURLs } }

\* load(): m.state is what the state file holds
LoadedInit ==
    /\ NewProxyChecker(<<>>, "ip", 0)
    /\ NoCallInProgress
    /\ newStableTopBLSelector(topBLQuota + topCIDRQuota)
    /\ NoInvocationYet
    /\ NoCallRecorded
    /\ selectorMu = 0
    /\ nextInv = [g \in Goroutines |-> IdleNext]
    /\ serial = [state |-> SelectorState, ret |-> [g \in Goroutines |-> <<>>],
                 order |-> <<>>]
    /\ managerMu = 0
    /\ sources \in StateFiles
    /\ savedState = sources
    /\ rmOp = [g \in Goroutines |-> IdleOp]

\* The calls of the manager on a loaded state
LoadedSpec == LoadedInit /\ [][RemoteNext]_vars

(***************************************************************************)
(* The handler of the top-BL subscription endpoint, built with a required  *)
(* token and called with requests                                          *)
(***************************************************************************)
MaxRequests == 2

\* The required tokens a deployment configures: none, a blank one, a word, and
\* a word after a space
RequiredTokens == { <<>>, << "sp" >>, << "s", "e", "c" >>, << "sp", "s", "e" >> }

\* The requests tried: a method and the values of the query's `token` parameter
\* (none when the parameter is missing)
TokenRequests ==
    { [method |-> m, query |-> q] :
        m \in { "GET", "POST" },
        q \in { << >>, << << >> >>, << << "b", "a", "d" >> >>, << << "s", "e", "c" >> >>,
                << << "sp", "s", "e" >> >>, << << "s", "e" >> >>,
                << << "b", "a", "d" >>, << "s", "e", "c" >> >> } }

\* url.Values.Get: the first value of the parameter, or the empty string
QueryGet(query) == IF query = << >> THEN << >> ELSE query[1]

\* subtle.ConstantTimeCompare on strings of one length: 1 when no position
\* differs, else 0
RECURSIVE ConstantTimeCompare(_, _)
ConstantTimeCompare(x, y) ==
    IF x = << >> THEN 1
    ELSE IF Head(x) # Head(y) THEN 0
    ELSE ConstantTimeCompare(Tail(x), Tail(y))

\* A faulty comparison to compare with: equal lengths are enough
secureTokenEqualsByLength(a, b) == Len(a) = Len(b)

\* secureTokenEquals
secureTokenEquals(a, b) ==
    IF Len(a) # Len(b) THEN FALSE ELSE ConstantTimeCompare(a, b) = 1

\* The response of the handler before it asks the selector: 405 for a method
\* other than GET, 404 for a wrong token when a non-blank one is required,
\* else 200
HandlerStatus(requiredToken, request) ==
    IF request.method # "GET" THEN 405
    ELSE IF /\ TrimSpace(requiredToken) # << >>
            /\ ~secureTokenEquals(QueryGet(request.query), requiredToken)
    THEN 404
    ELSE 200

TokenInit ==
    /\ NewProxyChecker(<<>>, "status", 1)
    /\ NoCallInProgress
    /\ newStableTopBLSelector(topBLQuota + topCIDRQuota)
    /\ NoInvocationYet
    /\ NoConcurrentCalls
    /\ callArgs \in { [fn |-> "APITopBLSubscriptionHandler", requiredToken |-> t,
                       method |-> "none", query |-> << >>] : t \in RequiredTokens }
    /\ callResult = [fn |-> "none"]
    /\ callCount = 0

\* One request served: refused, or answered with the links selector.Next
\* returns for the checker's proxies (none here) at the time of the request
ServeTopBL ==
    /\ callCount < MaxRequests
    /\ callCount' = callCount + 1
    /\ \E request \in TokenRequests :
         /\ callArgs' = [callArgs EXCEPT !.method = request.method,
                                         !.query = request.query]
         /\ IF HandlerStatus(callArgs.requiredToken, request) = 200
            THEN /\ \E step \in NowSteps :
                      SelectorNext(GetProxies, StatusFnOf(EmptyMap), selNow + step)
                 /\ callResult' = [fn |-> "APITopBLSubscriptionHandler",
                                   status |-> 200, served |-> TRUE,
                                   links |-> returned']
            ELSE /\ UNCHANGED selVars
                 /\ callResult' = [fn |-> "APITopBLSubscriptionHandler",
                                   status |-> HandlerStatus(callArgs.requiredToken, request),
                                   served |-> FALSE, links |-> << >>]
    /\ UNCHANGED << checkerVars, concVars, rmVars >>

TokenSpec == TokenInit /\ [][ServeTopBL]_vars

(***************************************************************************)
(* The quota walk of selectTopBLAndCIDRByLatency, one candidate at a time  *)
(***************************************************************************)
\* A second descriptor with both markers
SelC2 == [name |-> 8, hasBL |-> TRUE, hasCIDR |-> TRUE, sid |-> 5, src |-> <<"e">>]

\* The list walked: two candidates with both markers, a BL-only and a
\* CIDR-only one
WalkList == << SelC, SelC2, SelA, SelB >>

\* The ranked candidates the walk goes over: one per key, in rank order
RankedCandidates(list, statusFn) ==
    SortRanked(Range(FilterLoop(list, statusFn, 1,
                 [totalBL |-> 0, naCount |-> 0, onlineCount |-> 0,
                  offlineCount |-> 0, keyStates |-> EmptyMap,
                  uniqueByKey |-> EmptyMap]).uniqueByKey))

\* The walks tried: every candidate offline or online at either latency, and
\* any quotas from -1 to MaxQuota
WalkInputs(list) ==
    { [fn |-> "walk", list |-> list, statusFn |-> SelectFnOf(r),
       blLimit |-> IF qa < 0 THEN 0 ELSE qa, cidrLimit |-> IF qb < 0 THEN 0 ELSE qb,
       ranked |-> RankedCandidates(list, SelectFnOf(r))] :
        r \in [LookedUp(list) -> { StatusOffline } \cup { StatusOnline(l) : l \in SelLatencies }],
        qa \in (0 - 1)..MaxQuota, qb \in (0 - 1)..MaxQuota }

\* The walk is about to look at the first ranked candidate
WalkInit ==
    /\ NewProxyChecker(<<>>, "ip", 0)
    /\ NoCallInProgress
    /\ newStableTopBLSelector(topBLQuota + topCIDRQuota)
    /\ NoInvocationYet
    /\ NoConcurrentCalls
    /\ callArgs \in WalkInputs(WalkList)
    /\ callResult = [fn |-> "walk", i |-> 1, done |-> FALSE,
                     acc |-> [selected |-> <<>>, keys |-> {}, blCount |-> 0,
                              cidrCount |-> 0]]
    /\ callCount = 0

\* One turn of `for _, item := range ranked`: the loop ends after the last
\* candidate or breaks with both quotas filled, else the candidate is taken or
\* skipped
WalkStep ==
    /\ ~callResult.done
    /\ callCount' = callCount + 1
    /\ IF \/ callResult.i > Len(callArgs.ranked)
          \/ /\ callResult.acc.blCount >= callArgs.blLimit
             /\ callResult.acc.cidrCount >= callArgs.cidrLimit
       THEN callResult' = [callResult EXCEPT !.done = TRUE]
       ELSE callResult' = [callResult EXCEPT
                             !.i = @ + 1,
                             !.acc = QuotaWalk(<< callArgs.ranked[callResult.i] >>, 1,
                                               callArgs.blLimit, callArgs.cidrLimit,
                                               callResult.acc)]
    /\ UNCHANGED callArgs
    /\ UNCHANGED << checkerVars, selVars, concVars, rmVars >>

WalkSpec == WalkInit /\ [][WalkStep]_vars

(***************************************************************************)
(* ProxyChecker.checkByGen: the status probe of one proxy, one step of its *)
(* loop at a time.  An error text is a sequence of characters.             *)
(***************************************************************************)
\* The pause before the second attempt
genRetryDelay == 120 * Millisecond

LowerLetters == << "d", "e", "f", "g", "o", "r", "s", "u" >>

UpperLetters == << "D", "E", "F", "G", "O", "R", "S", "U" >>

\* strings.ToUpper
ToUpper(text) ==
    [n \in 1..Len(text) |->
        IF \E k \in 1..Len(LowerLetters) : LowerLetters[k] = text[n]
        THEN UpperLetters[CHOOSE k \in 1..Len(LowerLetters) : LowerLetters[k] = text[n]]
        ELSE text[n]]

\* strings.Contains
Contains(text, sub) ==
    \E n \in 0..(Len(text) - Len(sub)) : SubSeq(text, n + 1, n + Len(sub)) = sub

EOFText == << "E", "O", "F" >>

\* The error texts client.Do fails with: io.EOF, "unexpected EOF", an unknown
\* host whose name holds the letters in lower case, a refused connection, and
\* a text with the three letters apart
ErrorTexts ==
    { EOFText,
      << "u", " ", "E", "O", "F" >>,
      << "g", "e", "o", "f", "f" >>,
      << "r", "e", "f", "u", "s", "e", "d" >>,
      << "E", "O", " ", "F" >> }

\* The status codes of the answers
StatusCodes == { 199, 200, 204, 299, 300, 500 }

\* What one client.Do brings: an error, or an answer with a status code
DoOutcomes ==
    { [err |-> TRUE, text |-> t, code |-> 0] : t \in ErrorTexts }
      \cup { [err |-> FALSE, text |-> <<>>, code |-> c] : c \in StatusCodes }

\* A faulty test to compare with: the first attempt is repeated after any error
retryAfterAnyError(attempt, text) == attempt = 1

\* The test of line 456: the first attempt failed with a text that holds EOF
\* in any letter case
retryAfterError(attempt, text) ==
    attempt = 1 /\ Contains(ToUpper(text), EOFText)

\* The probes tried: whether http.NewRequest fails, and what the first and the
\* second client.Do bring
GenInputs ==
    { [fn |-> "checkByGen", requestFails |-> rf, outcomes |-> << o1, o2 >>] :
        rf \in BOOLEAN, o1 \in DoOutcomes, o2 \in DoOutcomes }

\* checkByGen is about to enter its loop
GenInit ==
    /\ NewProxyChecker(<<>>, "status", 0)
    /\ NoCallInProgress
    /\ newStableTopBLSelector(topBLQuota + topCIDRQuota)
    /\ NoInvocationYet
    /\ NoConcurrentCalls
    /\ callArgs \in GenInputs
    /\ callResult = [fn |-> "checkByGen", pc |-> "request", attempt |-> 1,
                     attempts |-> 0, slept |-> 0, ok |-> FALSE,
                     failed |-> FALSE, text |-> <<>>]
    /\ callCount = 0

\* Lines 439-443 and the loop's end: the request of this attempt is built; with
\* the loop over, the probe fails
GenRequest ==
    /\ callResult.fn = "checkByGen"
    /\ callResult.pc = "request"
    /\ callCount' = callCount + 1
    /\ callResult' =
         IF callResult.attempt > 2
         THEN [callResult EXCEPT !.pc = "done", !.failed = TRUE,
                                 !.text = << "r", "e", "t", "r", "y" >>]
         ELSE IF callArgs.requestFails
         THEN [callResult EXCEPT !.pc = "done", !.failed = TRUE,
                                 !.text = << "r", "e", "q" >>]
         ELSE [callResult EXCEPT !.pc = "do"]
    /\ UNCHANGED callArgs
    /\ UNCHANGED << checkerVars, selVars, concVars, rmVars >>

\* Lines 454-465: client.Do and what follows from its outcome
GenDo ==
    /\ callResult.fn = "checkByGen"
    /\ callResult.pc = "do"
    /\ callCount' = callCount + 1
    /\ \E o \in { callArgs.outcomes[callResult.attempt] } :
         callResult' =
           IF o.err /\ retryAfterError(callResult.attempt, o.text)
           THEN [callResult EXCEPT !.attempts = @ + 1, !.pc = "sleep"]
           ELSE IF o.err
           THEN [callResult EXCEPT !.attempts = @ + 1, !.pc = "done",
                                   !.failed = TRUE, !.text = o.text]
           ELSE [callResult EXCEPT !.attempts = @ + 1, !.pc = "done",
                                   !.ok = (o.code >= 200 /\ o.code < 300)]
    /\ UNCHANGED callArgs
    /\ UNCHANGED << checkerVars, selVars, concVars, rmVars >>

\* Lines 456-459: the pause, then the next turn of the loop
GenSleep ==
    /\ callResult.fn = "checkByGen"
    /\ callResult.pc = "sleep"
    /\ callCount' = callCount + 1
    /\ callResult' = [callResult EXCEPT !.slept = @ + genRetryDelay,
                                        !.attempt = @ + 1, !.pc = "request"]
    /\ UNCHANGED callArgs
    /\ UNCHANGED << checkerVars, selVars, concVars, rmVars >>

GenNext == GenRequest \/ GenDo \/ GenSleep

GenSpec == GenInit /\ [][GenNext]_vars

(***************************************************************************)
(* ProxyConfig.GenerateStableID applied to two descriptors                 *)
(***************************************************************************)
\* The base descriptor of the identity test
BaseConfig ==
    [protocol |-> "vless", server |-> "1.1.1.1", port |-> 443,
     uuid |-> "11111111-1111-1111-1111-111111111111", password |-> "",
     type |-> "ws", security |-> "tls", publicKey |-> "pub-key",
     sni |-> "example.com", host |-> "", path |-> "", shortID |-> "",
     name |-> "p1"]

\* Descriptors that vary the base in server, host, path, short id and name
StableIDConfigs ==
    { [BaseConfig EXCEPT !.server = sv, !.host = h, !.path = pa,
                         !.shortID = sh, !.name = n] :
        sv \in { "1.1.1.1", "2.2.2.2" },
        h  \in { "a.example.com", "b.example.com" },
        pa \in { "/a", "/b" },
        sh \in { "aaa", "bbb" },
        n  \in { "p1", "p2" } }

\* The user id of a descriptor, or its secret when it has no user id
UserIDOrSecret(c) == IF c.uuid # "" THEN c.uuid ELSE c.password

\* The digest of a tuple of fields: no two tuples share a digest
StableHash(data) == [digestOf |-> data]

\* A faulty identity to compare with: the host is left out
GenerateStableIDWithoutHost(c) ==
    StableHash(<< c.protocol, c.server, c.port, UserIDOrSecret(c), c.type,
                  c.security, c.sni, c.path, c.shortID, c.publicKey >>)

\* GenerateStableID: the hash over protocol, server, port, user id or secret,
\* network type, security mode, SNI, host, path, short id and public key
GenerateStableID(c) ==
    StableHash(<< c.protocol, c.server, c.port, UserIDOrSecret(c), c.type,
                  c.security, c.sni, c.host, c.path, c.shortID, c.publicKey >>)

StableIDInit ==
    /\ NewProxyChecker(<<>>, "ip", 0)
    /\ NoCallInProgress
    /\ newStableTopBLSelector(topBLQuota + topCIDRQuota)
    /\ NoInvocationYet
    /\ NoConcurrentCalls
    /\ callArgs \in { [fn |-> "GenerateStableID", a |-> a, b |-> b] :
                        a \in StableIDConfigs, b \in StableIDConfigs }
    /\ callResult = [fn |-> "none"]
    /\ callCount = 0

\* a.GenerateStableID() and b.GenerateStableID()
GenerateStableIDCall ==
    /\ callCount = 0
    /\ callResult' = [fn |-> "GenerateStableID",
                      a |-> GenerateStableID(callArgs.a),
                      b |-> GenerateStableID(callArgs.b)]
    /\ callCount' = callCount + 1
    /\ UNCHANGED callArgs
    /\ UNCHANGED << checkerVars, selVars, concVars, rmVars >>

StableIDSpec == StableIDInit /\ [][GenerateStableIDCall]_vars

(***************************************************************************)
(* The checker with a fixed proxy list under a clock that moves: batches   *)
(* and single checks, no UpdateProxies, so every generation check passes   *)
(***************************************************************************)
MaxClock == 2

\* time.Now() moves on
Tick ==
    /\ clock < MaxClock
    /\ clock' = clock + 1
    /\ UNCHANGED << proxies, generation, generationSkips, mapVars, badSince,
                    cfgVars, ipInitialized, upVars, batchVars, probe >>
    /\ UNCHANGED << selVars, fnVars, concVars, rmVars >>

ProbeInit ==
    /\ \E method \in ConfiguredMethods, c \in ConfiguredConcurrency :
          NewProxyChecker(<< DescA, DescB >>, method, c)
    /\ NoCallInProgress
    /\ newStableTopBLSelector(topBLQuota + topCIDRQuota)
    /\ NoInvocationYet
    /\ NoConcurrentCalls
    /\ NoCallRecorded

ProbeNext ==
    \/ Tick
    \/ CheckAllBegin
    \/ CheckAllSkip
    \/ CheckAllSnapshot
    \/ CheckAllDispatch
    \/ CheckAllEnd
    \/ \E i \in Slots : ProbeRun(i)
    \/ \E i \in Slots : FailStatusCheck(i)
    \/ \E i \in Slots : FailStatusStore(i)
    \/ \E i \in Slots : FailStatusMark(i)
    \/ \E i \in Slots : FailLatencyCheck(i)
    \/ \E i \in Slots : FailLatencyStore(i)
    \/ \E i \in Slots : FailLatencyMark(i)
    \/ \E i \in Slots : SuccessCheck(i)
    \/ \E i \in Slots : SuccessLatencyStore(i)
    \/ \E i \in Slots : SuccessStatusStore(i)
    \/ \E i \in Slots : SuccessBadSince(i)

ProbeSpec == ProbeInit /\ [][ProbeNext]_vars

(***************************************************************************)
(* A goroutine reading the recorded state beside the probes of a batch:    *)
(* GetProxyStatus and GetProxyStatusByStableID resolve the metric key      *)
(* under pc.mu.RLock(), getStatusByMetricKey then loads the status and the *)
(* latency with one sync.Map.Load each, holding no lock                    *)
(***************************************************************************)
\* The reads a caller may start
ReadCalls ==
    { [fn |-> "GetProxyStatus", arg |-> d.name] : d \in { DescA, DescB } }
      \cup { [fn |-> "GetProxyStatusByStableID", arg |-> d.sid] : d \in { DescA, DescB } }

\* The metric key the locked part of the read resolves; <<>> is the empty key
ResolvedKey(call) ==
    LET matches == { i \in 1..Len(proxies) :
                       IF call.fn = "GetProxyStatus" THEN proxies[i].name = call.arg
                       ELSE proxies[i].sid = call.arg }
    IN  IF matches = {} THEN <<>> ELSE metricKeyForProxy(proxies[FirstOf(matches)])

\* The reader is not inside a read
ReaderIdle == IF callResult.fn = "none" THEN TRUE ELSE callResult.pc = "done"

\* Lines 594-621 and 626-628: the key is resolved; an empty key ends
\* the read
ReadBegin ==
    /\ ReaderIdle
    /\ upPc = "idle"
    /\ \E call \in ReadCalls :
         /\ callArgs' = call
         /\ callResult' =
              IF ResolvedKey(call) = <<>>
              THEN [fn |-> call.fn, pc |-> "done", metricKey |-> <<>>,
                    online |-> FALSE, latency |-> 0, err |-> "not found"]
              ELSE [fn |-> call.fn, pc |-> "status", metricKey |-> ResolvedKey(call),
                    online |-> FALSE, latency |-> 0, err |-> "nil"]
    /\ callCount' = 1
    /\ UNCHANGED << checkerVars, selVars, concVars, rmVars >>

\* Lines 630-633: pc.currentMetrics.Load(metricKey)
ReadStatusLoad ==
    /\ callResult.fn # "none"
    /\ callResult.pc = "status"
    /\ callResult' =
         IF callResult.metricKey \notin DOMAIN currentMetrics
         THEN [callResult EXCEPT !.pc = "done", !.err = "not found"]
         ELSE [callResult EXCEPT !.pc = "latency",
                                 !.online = currentMetrics[callResult.metricKey]]
    /\ UNCHANGED << callArgs, callCount >>
    /\ UNCHANGED << checkerVars, selVars, concVars, rmVars >>

\* Lines 635-640: pc.latencyMetrics.Load(metricKey), a missing latency read as 0
ReadLatencyLoad ==
    /\ callResult.fn # "none"
    /\ callResult.pc = "latency"
    /\ callResult' =
         [callResult EXCEPT
            !.pc = "done",
            !.latency = IF callResult.metricKey \in DOMAIN latencyMetrics
                        THEN latencyMetrics[callResult.metricKey] ELSE 0]
    /\ UNCHANGED << callArgs, callCount >>
    /\ UNCHANGED << checkerVars, selVars, concVars, rmVars >>

\* The steps of the batch and of its probes
BatchNext ==
    \/ CheckAllBegin
    \/ CheckAllSkip
    \/ CheckAllSnapshot
    \/ CheckAllDispatch
    \/ CheckAllEnd
    \/ \E i \in Slots : ProbeRun(i)
    \/ \E i \in Slots : FailStatusCheck(i)
    \/ \E i \in Slots : FailStatusStore(i)
    \/ \E i \in Slots : FailStatusMark(i)
    \/ \E i \in Slots : FailLatencyCheck(i)
    \/ \E i \in Slots : FailLatencyStore(i)
    \/ \E i \in Slots : FailLatencyMark(i)
    \/ \E i \in Slots : SuccessCheck(i)
    \/ \E i \in Slots : SuccessLatencyStore(i)
    \/ \E i \in Slots : SuccessStatusStore(i)
    \/ \E i \in Slots : SuccessBadSince(i)

ReadNext ==
    \/ BatchNext
    \/ ReadBegin
    \/ ReadStatusLoad
    \/ ReadLatencyLoad

\* Batches of probes and a reader beside them
ReadSpec == ProbeInit /\ [][ReadNext]_vars

(***************************************************************************)
(* updateConfiguration beside the batches of the checker: the config is    *)
(* generated, the tunnel runner stopped and started, and the checker then  *)
(* given the new list; callResult holds the position of the call, the      *)
(* steps that have succeeded, and what the checker held when it began      *)
(***************************************************************************)
\* The steps of updateConfiguration that can fail, in the order of the code
ConfigSteps == << "generate", "stop", "start" >>

\* The calls tried: a new list, and the step that fails, if any
UpdateConfigurationInputs ==
    { [fn |-> "updateConfiguration", newConfigs |-> l, fails |-> f] :
        l \in ProxyLists, f \in { "none", "generate", "stop", "start" } }

\* No call of updateConfiguration is in progress
NoUpdateConfiguration ==
    IF callResult.fn = "none" THEN TRUE ELSE callResult.pc = "returned"

\* A faulty test to compare with: a runner that did not start is not an error
StepFailsNeverAtStart(step, fails) == step = fails /\ step # "start"

\* `if err := ...; err != nil` of the step
StepFails(step, fails) == step = fails

\* Lines 267-272: updateConfiguration is called
UpdateConfigurationBegin ==
    /\ NoUpdateConfiguration
    /\ upPc = "idle"
    /\ generation < MaxGen
    /\ callArgs' \in UpdateConfigurationInputs
    /\ callResult' = [fn |-> "updateConfiguration", pc |-> ConfigSteps[1],
                      done |-> <<>>, err |-> "nil", running |-> TRUE,
                      generation0 |-> generation, proxies0 |-> proxies]
    /\ callCount' = 1
    /\ UNCHANGED << checkerVars, selVars, concVars, rmVars >>

\* Lines 274-291: GenerateAndSaveConfig, xrayRunner.Stop or xrayRunner.Start; a
\* failure returns the error
UpdateConfigurationStep ==
    /\ callResult.fn = "updateConfiguration"
    /\ callResult.pc \in Range(ConfigSteps)
    /\ callResult' =
         IF StepFails(callResult.pc, callArgs.fails)
         THEN [callResult EXCEPT !.pc = "returned", !.err = callResult.pc]
         ELSE [callResult EXCEPT
                 !.done = Append(@, callResult.pc),
                 !.running = IF callResult.pc = "stop" THEN FALSE
                             ELSE IF callResult.pc = "start" THEN TRUE ELSE @,
                 !.pc = IF callResult.pc = "generate" THEN "stop"
                        ELSE IF callResult.pc = "stop" THEN "start"
                        ELSE "update"]
    /\ UNCHANGED << callArgs, callCount >>
    /\ UNCHANGED << checkerVars, selVars, concVars, rmVars >>

\* Line 293: proxyChecker.UpdateProxies(newConfigs) begins
UpdateConfigurationUpdateProxies ==
    /\ callResult.fn = "updateConfiguration"
    /\ callResult.pc = "update"
    /\ generation = callResult.generation0
    /\ UpdateBegin
    /\ upNew' = callArgs.newConfigs

\* Lines 295-300: UpdateProxies has returned; *currentConfigs = newConfigs
UpdateConfigurationReturn ==
    /\ callResult.fn = "updateConfiguration"
    /\ callResult.pc = "update"
    /\ generation # callResult.generation0
    /\ upPc = "idle"
    /\ callResult' = [callResult EXCEPT !.pc = "returned",
                                        !.done = Append(@, "update")]
    /\ UNCHANGED << callArgs, callCount >>
    /\ UNCHANGED << checkerVars, selVars, concVars, rmVars >>

\* A checker of two proxies probing them one at a time with the status method
ConfigInit ==
    /\ NewProxyChecker(<< DescA, DescB >>, "status", 1)
    /\ NoCallInProgress
    /\ newStableTopBLSelector(topBLQuota + topCIDRQuota)
    /\ NoInvocationYet
    /\ NoConcurrentCalls
    /\ NoCallRecorded

ConfigNext ==
    \/ CheckAllBegin
    \/ CheckAllSnapshot
    \/ CheckAllDispatch
    \/ CheckAllEnd
    \/ \E i \in Slots : ProbeRun(i)
    \/ \E i \in Slots : FailStatusCheck(i)
    \/ \E i \in Slots : FailStatusStore(i)
    \/ \E i \in Slots : FailStatusMark(i)
    \/ \E i \in Slots : FailLatencyCheck(i)
    \/ \E i \in Slots : FailLatencyStore(i)
    \/ \E i \in Slots : FailLatencyMark(i)
    \/ \E i \in Slots : SuccessCheck(i)
    \/ \E i \in Slots : SuccessLatencyStore(i)
    \/ \E i \in Slots : SuccessStatusStore(i)
    \/ \E i \in Slots : SuccessBadSince(i)
    \/ UpdateConfigurationBegin
    \/ UpdateConfigurationStep
    \/ UpdateConfigurationUpdateProxies
    \/ UpdateClearCurrent
    \/ UpdateReturn
    \/ UpdateConfigurationReturn

\* Batches of probes, and updateConfiguration called whenever the subscription
\* has changed
ConfigSpec == ConfigInit /\ [][ConfigNext]_vars

(***************************************************************************)
(* Properties of the checker, checked under Spec                           *)
(***************************************************************************)
StoreSteps == { "fs_store", "fl_store", "ok_lat", "ok_cur" }

\* C1: a probe dispatched under generation g never stores an online flag or a
\* latency into the status/latency maps when the live generation is no longer
\* g.  (Violated: the generation is compared before the store, not with it.)
C1_StaleStore ==
    [][\A i \in Slots :
         (probe[i].pc \in StoreSteps /\ probe'[i].pc # probe[i].pc)
            => generation = probe[i].gen]_vars

\* C2: a probe result is applied all-or-nothing: no probe has one part of its
\* result written and another part of it discarded as stale.  (Violated.)
C2_PartialResult ==
    \A i \in Slots : probe[i].applied = {} \/ probe[i].discarded = {}

\* The probes of the batch that belonged to an old generation while unfinished
StaleProbes == { i \in 1..Len(batchList) : probe[i].stale }

\* C3: at the end of a batch (every probe returned, the counter not yet read
\* and reset) the skip counter equals the number of the batch's probes that
\* were in flight from an old generation, and none of them wrote to the
\* status/latency maps.  (Violated.)
C3_SkipCount ==
    (batchPc = "wait" /\ BatchProbesDone /\ checkMethod \in CheckMethods)
       => /\ generationSkips = Cardinality(StaleProbes)
          /\ \A i \in StaleProbes : probe[i].applied \cap {"status", "latency"} = {}

\* C4: when UpdateProxies(newList) returns, no probe having run meanwhile, the
\* status map, the latency map and the bad-since map are empty and the proxy
\* list is newList.  (Violated: the bad-since map is never cleared.)
C4_MapsEmptied ==
    [][(upPc = "clearedCurrent" /\ upPc' = "idle" /\ upQuiet /\ ~BatchProbesRunning)
          => /\ currentMetrics' = EmptyMap
             /\ latencyMetrics' = EmptyMap
             /\ badSince' = EmptyMap
             /\ proxies' = upNew]_vars

\* C5: the generation counter never decreases; each UpdateProxies call
\* increases it by exactly 1 and no other operation changes it.
C5_GenerationMonotone ==
    [][/\ generation' >= generation
       /\ (generation' # generation) => (upPc = "idle" /\ upPc' = "bumped")
       /\ (upPc = "idle" /\ upPc' = "bumped") => generation' = generation + 1
       /\ (upPc = "clearedCurrent" /\ upPc' = "idle") => generation' = upGen0 + 1]_vars

\* Two UpdateProxies calls have returned while one batch was waiting for its
\* probes.
C5_Witness ==
    /\ generation = 2
    /\ upPc = "idle"
    /\ upGen0 = 1
    /\ batchPc = "wait"
    /\ batchGen = 0

\* C20: CheckAllProxies does not return while a probe it dispatched is still
\* running: when it returns, the probe of every proxy of its snapshot has
\* completed.
C20_BatchBarrier ==
    [][(batchPc # "idle" /\ batchPc' = "idle")
          => /\ \A i \in Slots : ~InFlight(i)
             /\ \A i \in 1..Len(batchList) : probe[i].pc = "done"]_vars

\* Both probes of a two-proxy snapshot have returned, one of them after a
\* generation change, and CheckAllProxies is about to return.
C20_Witness ==
    /\ batchPc = "wait"
    /\ Len(batchList) = 2
    /\ \A i \in 1..2 : probe[i].pc = "done"
    /\ \E i \in 1..2 : probe[i].discarded # {}

\* C21: at every moment of a batch the number of its probes in flight is at
\* most the concurrency limit, which is 32 where the configured one is not
\* positive.
C21_ConcurrencyBounded ==
    /\ InFlightCount <= checkConcurrency
    /\ checkConcurrency \in { c \in ConfiguredConcurrency : c > 0 } \cup { 32 }

\* With a limit of 1 and two proxies, the first probe is in flight and the
\* second waits for the semaphore
C21_Witness ==
    /\ checkConcurrency = 1
    /\ batchPc = "dispatch"
    /\ Len(batchList) = 2
    /\ batchNext = 2
    /\ InFlight(1)

\* Everything a batch could write: the result maps, the generation, the skip
\* count and the probes
BatchEffects == << proxies, generation, generationSkips, currentMetrics,
                  latencyMetrics, badSince, probe >>

Answers(result, matches) ==
    IF matches = {}
    THEN result = NotFound
    ELSE LET key == metricKeyForProxy(proxies[FirstOf(matches)])
         IN  IF key \notin DOMAIN currentMetrics
             THEN result = NotFound
             ELSE /\ result.err = "nil"
                  /\ result.online = currentMetrics[key]
                  /\ result.latency = (IF key \in DOMAIN latencyMetrics
                                       THEN latencyMetrics[key] ELSE 0)

ProbeMoves(i, from, to) == probe[i].pc = from /\ probe'[i].pc = to

\* C22: when a successful probe that passed its generation check returns, the
\* proxy is recorded online with the measured latency; above 1000 ms the
\* proxy has a bad-since, the one it had before or else the current time; at
\* 1000 ms or less it has none.
C22_SuccessRecorded ==
    [][\A i \in Slots :
         ProbeMoves(i, "ok_bad", "done") =>
           LET key == metricKeyForProxy(probe[i].proxy)
           IN  /\ key \in DOMAIN currentMetrics' /\ currentMetrics'[key] = TRUE
               /\ key \in DOMAIN latencyMetrics' /\ latencyMetrics'[key] = probe[i].lat
               /\ probe[i].lat > 1000 * Millisecond =>
                     /\ key \in DOMAIN badSince'
                     /\ badSince'[key] = (IF key \in DOMAIN badSince
                                          THEN badSince[key] ELSE clock)
               /\ probe[i].lat <= 1000 * Millisecond => key \notin DOMAIN badSince']_vars

\* A probe started at time 1 or later has recorded a success at 1500 ms, and
\* the proxy's bad-since is still the earlier time 0
C22_Witness ==
    \E i \in Slots :
      /\ probe[i].pc = "done"
      /\ probe[i].startedAt >= 1
      /\ probe[i].applied = { "status", "latency", "bad" }
      /\ metricKeyForProxy(probe[i].proxy) \in DOMAIN currentMetrics
      /\ currentMetrics[metricKeyForProxy(probe[i].proxy)] = TRUE
      /\ latencyMetrics[metricKeyForProxy(probe[i].proxy)] = 1500 * Millisecond
      /\ metricKeyForProxy(probe[i].proxy) \in DOMAIN badSince
      /\ badSince[metricKeyForProxy(probe[i].proxy)] = 0

\* C23: when a failed probe that passed its generation checks returns, the
\* proxy is recorded offline with latency 0; each of its two markBad calls
\* leaves the proxy with the bad-since it had before, or with the current
\* time if it had none.
C23_FailureRecorded ==
    [][\A i \in Slots :
         LET key == metricKeyForProxy(probe[i].proxy)
             marked == /\ key \in DOMAIN badSince'
                       /\ badSince'[key] = (IF key \in DOMAIN badSince
                                            THEN badSince[key] ELSE clock)
         IN  /\ ProbeMoves(i, "fs_mark", "fl_check") => marked
             /\ ProbeMoves(i, "fl_mark", "done") =>
                   /\ marked
                   /\ key \in DOMAIN currentMetrics' /\ currentMetrics'[key] = FALSE
                   /\ key \in DOMAIN latencyMetrics' /\ latencyMetrics'[key] = 0]_vars

\* A probe started at time 1 or later has recorded a failure, and the proxy's
\* bad-since is still the earlier time 0
C23_Witness ==
    \E i \in Slots :
      /\ probe[i].pc = "done"
      /\ probe[i].startedAt >= 1
      /\ probe[i].applied = { "status", "latency", "bad" }
      /\ metricKeyForProxy(probe[i].proxy) \in DOMAIN currentMetrics
      /\ currentMetrics[metricKeyForProxy(probe[i].proxy)] = FALSE
      /\ latencyMetrics[metricKeyForProxy(probe[i].proxy)] = 0
      /\ metricKeyForProxy(probe[i].proxy) \in DOMAIN badSince
      /\ badSince[metricKeyForProxy(probe[i].proxy)] = 0

\* C27: with two proxies of one display name in the list, the step on which a
\* probe returns leaves GetProxyStatusByStableID of the probed proxy's stable
\* id answering that probe's result (online and the measured latency, or
\* offline and 0), and leaves the answer for the other stable id as it was.
C27_StableIDSelectsProxy ==
    [][\A i \in Slots :
         (ProbeMoves(i, "ok_bad", "done") \/ ProbeMoves(i, "fl_mark", "done")) =>
           /\ GetProxyStatusByStableID(probe[i].proxy.sid)' =
                 [online |-> probe[i].ok,
                  latency |-> IF probe[i].ok THEN probe[i].lat ELSE 0,
                  err |-> "nil"]
           /\ \A d \in { DescA, DescB } \ { probe[i].proxy } :
                 /\ d.name = probe[i].proxy.name
                 /\ GetProxyStatusByStableID(d.sid)' = GetProxyStatusByStableID(d.sid)]_vars

\* The two proxies named "dup" have different results, and each stable id
\* answers its own proxy's result
C27_Witness ==
    /\ proxies = << DescA, DescB >>
    /\ \A i \in Slots : probe[i].pc = "done"
    /\ GetProxyStatusByStableID(DescA.sid) =
          [online |-> FALSE, latency |-> 0, err |-> "nil"]
    /\ GetProxyStatusByStableID(DescB.sid) =
          [online |-> TRUE, latency |-> 500 * Millisecond, err |-> "nil"]

\* C24: a probe that ends on a configuration error (here: a check method that
\* is none of ip, status, download) returns with the proxy recorded offline,
\* and the batch goes on dispatching or waiting for its other probes.
C24_ConfigErrorMarksOffline ==
    [][\A i \in Slots :
         ProbeMoves(i, "run", "done") =>
           /\ metricKeyForProxy(probe[i].proxy) \in DOMAIN currentMetrics'
           /\ currentMetrics'[metricKeyForProxy(probe[i].proxy)] = FALSE
           /\ batchPc' \in { "dispatch", "wait" }]_vars

(***************************************************************************)
(* Properties of concurrent Next invocations, checked under ConcSpec       *)
(***************************************************************************)
\* The goroutines between s.mu.Lock() and the deferred s.mu.Unlock()
InsideNext ==
    { g \in Goroutines : nextInv[g].pc \in { "check", "ema", "reconcile", "publish", "unlock" } }

\* C29: at most one goroutine is in the part of Next that reads and writes the
\* selector; whenever none is, the selector's fields are those a serial
\* execution of the same invocations, in the order they took s.mu, leaves, and
\* every invocation that has returned has returned what it returns there.
C29_NextSerializable ==
    /\ Cardinality(InsideNext) <= 1
    /\ InsideNext = {} => SelectorState = serial.state
    /\ \A g \in Goroutines :
         nextInv[g].pc = "idle" => nextInv[g].ret = serial.ret[g]

\* Both goroutines have returned from overlapping invocations: goroutine 2 took
\* s.mu first although goroutine 1 read the earlier time, and something is
\* published
C29_Witness ==
    /\ \A g \in Goroutines : nextInv[g].pc = "idle"
    /\ serial.order = << 2, 1 >>
    /\ nextInv[1].now < nextInv[2].now
    /\ published # <<>>
    /\ nextInv[1].ret = published

(***************************************************************************)
(* Properties of the remote manager, checked under RemoteLiveSpec          *)
(***************************************************************************)
\* C30: a goroutine in the download loop of AddURLs or about to lock in
\* mergeDownloaded does not hold m.mu, and every AddURLs call that has begun
\* returns.
C30_AddURLsReturns ==
    /\ [](\A g \in Goroutines :
            rmOp[g].pc \in { "download", "merge_lock" } => managerMu # g)
    /\ \A g \in Goroutines :
         (rmOp[g].fn = "AddURLs" /\ rmOp[g].pc # "idle") ~> (rmOp[g].pc = "idle")

\* AddURLs of goroutine 1 has returned without error with a downloaded source
\* merged into the state while goroutine 2 is inside a call of its own
C30_Witness ==
    /\ rmOp[1].fn = "AddURLs"
    /\ rmOp[1].pc = "idle"
    /\ ~rmOp[1].err
    /\ \E id \in DOMAIN rmOp[1].items :
         /\ rmOp[1].items[id].lastUpdated
         /\ id \in DOMAIN sources
         /\ sources[id].lastUpdated
    /\ rmOp[2].pc # "idle"

(***************************************************************************)
(* Properties of the subscription handler, checked under TokenSpec         *)
(***************************************************************************)
\* C31: with a non-blank required token, a GET request is answered with 200
\* and the subscription links exactly when the first value of its `token`
\* parameter is the required token, and with 404 otherwise.
C31_TokenGuardsSubscription ==
    (/\ callResult.fn = "APITopBLSubscriptionHandler"
     /\ callArgs.method = "GET"
     /\ TrimSpace(callArgs.requiredToken) # << >>) =>
      IF callArgs.query # << >> /\ callArgs.query[1] = callArgs.requiredToken
      THEN callResult.status = 200 /\ callResult.served /\ callResult.links = returned
      ELSE callResult.status = 404 /\ ~callResult.served

\* A GET request with the required token has been answered with 200 after an
\* earlier request was refused
C31_Witness ==
    /\ callResult.fn = "APITopBLSubscriptionHandler"
    /\ callCount = 2
    /\ callArgs.method = "GET"
    /\ callArgs.requiredToken = << "s", "e", "c" >>
    /\ callArgs.query = << << "s", "e", "c" >> >>
    /\ callResult.status = 200
    /\ callResult.served
    /\ selCalls = 1

(***************************************************************************)
(* Properties of the quota walk, checked under WalkSpec                    *)
(***************************************************************************)
\* The walk looks at a candidate on this step
WalkLooksAt(item) ==
    /\ callResult.fn = "walk"
    /\ callResult'.i = callResult.i + 1
    /\ item = callArgs.ranked[callResult.i]

\* The candidate looked at is taken and counted against the given bucket
WalkCounts(item, bl, cidr) ==
    /\ callResult'.acc.selected = Append(callResult.acc.selected, item)
    /\ callResult'.acc.blCount = callResult.acc.blCount + bl
    /\ callResult'.acc.cidrCount = callResult.acc.cidrCount + cidr

\* C32: a candidate with both markers that the walk looks at is counted against
\* the bucket with the greater unmet quota (against one of the two when they
\* are equal), and is never passed over; the walk looks at no candidate once
\* both quotas are filled; and when the walk ends its result is that of
\* selectTopBLAndCIDRByLatency.
C32_BothTaggedFillsEmptierBucket ==
    [][/\ \A item \in { callArgs.ranked[j] : j \in 1..Len(callArgs.ranked) } :
            (WalkLooksAt(item) /\ item.proxy.hasBL /\ item.proxy.hasCIDR) =>
              LET blNeed == callArgs.blLimit - callResult.acc.blCount
                  cidrNeed == callArgs.cidrLimit - callResult.acc.cidrCount
              IN  /\ blNeed > 0 \/ cidrNeed > 0
                  /\ cidrNeed > blNeed => WalkCounts(item, 0, 1)
                  /\ blNeed > cidrNeed => WalkCounts(item, 1, 0)
                  /\ blNeed = cidrNeed => WalkCounts(item, 1, 0) \/ WalkCounts(item, 0, 1)
       /\ (callResult.fn = "walk" /\ callResult'.i # callResult.i) =>
            ~(/\ callResult.acc.blCount >= callArgs.blLimit
              /\ callResult.acc.cidrCount >= callArgs.cidrLimit)
       /\ (callResult.fn = "walk" /\ callResult'.done) =>
            callResult'.acc.selected =
              selectTopBLAndCIDRByLatency(callArgs.list, callArgs.statusFn,
                                          callArgs.blLimit, callArgs.cidrLimit).proxies]_vars

\* The walk has ended before the last candidate with both quotas filled: after
\* a CIDR-only candidate, one candidate with both markers was counted against
\* the BL quota and the next against the CIDR quota
C32_Witness ==
    /\ callResult.fn = "walk"
    /\ callResult.done
    /\ callResult.i <= Len(callArgs.ranked)
    /\ callArgs.blLimit = 1 /\ callArgs.cidrLimit = 2
    /\ callResult.acc.blCount = 1 /\ callResult.acc.cidrCount = 2
    /\ \A j \in 2..3 : /\ callResult.acc.selected[j].proxy.hasBL
                       /\ callResult.acc.selected[j].proxy.hasCIDR

(***************************************************************************)
(* Properties of the stable identity, checked under StableIDSpec           *)
(***************************************************************************)
TransportCriticalFields ==
    { "protocol", "server", "port", "uuid", "password", "type", "security",
      "sni", "host", "path", "shortID", "publicKey" }

\* The transport-critical fields in which two descriptors differ
DifferingFields(a, b) == { f \in TransportCriticalFields : a[f] # b[f] }

\* C28: two descriptors equal in every transport-critical field get the same
\* identity whatever their names, and two descriptors that differ in exactly
\* one of short id, path or host get different identities.
C28_IdentityOfCriticalFields ==
    callResult.fn = "GenerateStableID" =>
      /\ DifferingFields(callArgs.a, callArgs.b) = {} => callResult.a = callResult.b
      /\ DifferingFields(callArgs.a, callArgs.b) \in { {"shortID"}, {"path"}, {"host"} } =>
           callResult.a # callResult.b

\* Two descriptors that differ in the host alone, and in the name, have been
\* given different identities
C28_Witness ==
    /\ callResult.fn = "GenerateStableID"
    /\ DifferingFields(callArgs.a, callArgs.b) = { "host" }
    /\ callArgs.a.name # callArgs.b.name
    /\ callResult.a # callResult.b

(***************************************************************************)
(* Properties of the selector, checked under SelSpec                       *)
(***************************************************************************)
\* C6: if in an invocation of Next at least one tagged candidate exists, the
\* status lookup fails for every tagged candidate and the published list is
\* non-empty, Next returns exactly the previously published list.
C6_AllNAKeepsPublished ==
    [][(selCalls' # selCalls /\ lastAllNA' /\ published # <<>>)
          => (returned' = published /\ published' = published)]_vars

\* Every tagged candidate was n/a and the two published links came back.
C6_Witness ==
    /\ lastAllNA
    /\ lastPath = "shortcircuit"
    /\ Len(published) = 2
    /\ returned = published

\* C7: once the published list is non-empty it is never empty again, and it is
\* modified only by the publish step of Next.
C7_PublishedNeverEmptied ==
    [][/\ published # <<>> => published' # <<>>
       /\ published' # published => (selCalls' = selCalls + 1 /\ lastPath' = "publish")]_vars

\* Next proposed no link at all and the published list stayed as it was.
C7_Witness ==
    /\ lastPath = "keep"
    /\ lastProposed = <<>>
    /\ published # <<>>
    /\ returned = published

\* A reason the claim accepts for a publish in the invocation just made
PublishAllowed ==
    \/ published = <<>>
    \/ selNow' - lastPublished >= topBLBatchInterval
    \/ lastEvicted' # {}

\* C8: Next replaces the published list and the publish timestamp only if
\* nothing was published before, or 2 hours have passed since the last
\* publish, or an emergency eviction happened in this same invocation;
\* otherwise the list returned is the list the previous invocation returned
\* and the publish timestamp is unchanged.  (Violated: an emergency flag left
\* over by an earlier invocation forces a publish.)
C8_PublishOnlyWhenDue ==
    [][selCalls' # selCalls =>
         /\ lastPath' = "publish" => PublishAllowed
         /\ ~PublishAllowed => (returned' = returned /\ lastPublished' = lastPublished)]_vars

\* C9: an active entry whose key shows no online observation in two
\* consecutive Next invocations is removed from the active set in the second
\* of them, and that invocation publishes.  (Violated as stated.)
C9_TwoMissesEvictAndPublish ==
    \A k \in DOMAIN missCount :
        missCount[k] = 2 => (k \notin DOMAIN active /\ lastPath = "publish")

\* C9, amended: an active entry whose key shows no online observation in two
\* consecutive Next invocations, neither of which takes the all-n/a
\* short-circuit, is removed from the active set in the second of them, and
\* that invocation publishes whenever the remaining active set yields a
\* non-empty link list.
C9_TwoReconciledMissesEvict ==
    \A k \in DOMAIN reconMiss :
        reconMiss[k] = 2 =>
            /\ k \in lastEvicted
            /\ k \notin DOMAIN active
            /\ lastProposed # <<>> => lastPath = "publish"

\* The key of SelA missed twice, was evicted, and the remaining link was
\* published although no time has passed since the first publish.
C9_Witness ==
    /\ dedupKey(SelA) \in DOMAIN reconMiss
    /\ reconMiss[dedupKey(SelA)] = 2
    /\ dedupKey(SelA) \in lastEvicted
    /\ lastPath = "publish"
    /\ selNow = 0
    /\ lastPublished = 0

\* C10: after every return of Next, on every return path, the emergency flag
\* is false.  (Violated: the two early returns leave it as it is.)
C10_FlagReset == hadEmergency = FALSE


(***************************************************************************)
(* Properties of applyEMA, checked under EmaSpec                           *)
(***************************************************************************)

\* The EMA of proxies[i] lies in the nanosecond of 0.7*prev + 0.3*raw
WeightedMean(prev, raw, ema) ==
    /\ 10 * ema <= 7 * prev + 3 * raw
    /\ 7 * prev + 3 * raw < 10 * ema + 10

\* C14 as stated: the first observation of a key sets its EMA to the raw
\* latency, and every later observation sets it to 0.7 * previous EMA + 0.3 * raw
\* (to the nanosecond).
C14_LaterObservationsAverage ==
    callArgs.fn = "applyEMA" =>
      \A i \in 1..Len(callArgs.proxies) :
        LET p == callArgs.proxies[i]
        IN  IF p.key \notin DOMAIN callArgs.emaByKey
            THEN emaByKey[p.key] = p.latency
            ELSE WeightedMean(callArgs.emaByKey[p.key], p.latency, emaByKey[p.key])

\* C14, amended: the first observation of a key, and every observation that
\* finds a stored EMA of zero or less, sets the EMA to the raw latency; every
\* other observation sets it to 0.7 * previous EMA + 0.3 * raw, cut to whole
\* nanoseconds.
C14_EMAUpdate ==
    callArgs.fn = "applyEMA" =>
      \A i \in 1..Len(callArgs.proxies) :
        LET p == callArgs.proxies[i]
        IN  IF p.key \notin DOMAIN callArgs.emaByKey \/ callArgs.emaByKey[p.key] <= 0
            THEN emaByKey[p.key] = p.latency
            ELSE WeightedMean(callArgs.emaByKey[p.key], p.latency, emaByKey[p.key])

\* raw 100 ms, then raw 200 ms for the same key: the EMA goes from 100 ms to 130 ms
C14_Witness ==
    /\ callArgs.fn = "applyEMA"
    /\ \E i \in 1..Len(callArgs.proxies) :
         LET p == callArgs.proxies[i]
         IN  /\ p.key \in DOMAIN callArgs.emaByKey
             /\ callArgs.emaByKey[p.key] = 100 * Millisecond
             /\ p.latency = 200 * Millisecond
             /\ emaByKey[p.key] = 130 * Millisecond

(***************************************************************************)
(* Properties of selectTopBLAndCIDRByLatency, checked under SelectSpec     *)
(***************************************************************************)

\* A quota as the selection applies it: a negative one counts as zero
Quota(q) == IF q < 0 THEN 0 ELSE q

\* The descriptors of the list that are candidates: tagged, with a source line,
\* answered online without an error
OnlineCandidates(list, statusFn) ==
    { i \in 1..Len(list) :
        /\ TrimSpace(list[i].src) # <<>>
        /\ (list[i].hasBL \/ list[i].hasCIDR)
        /\ ~statusFn[list[i].sid].err
        /\ statusFn[list[i].sid].online }

\* The stable identities of the candidates that carry exactly the given markers
CandidateIds(list, statusFn, bl, cidr) ==
    { list[i].sid : i \in { j \in OnlineCandidates(list, statusFn) :
                               list[j].hasBL = bl /\ list[j].hasCIDR = cidr } }

\* The entries of a selection result that carry exactly the given markers
Selected(result, bl, cidr) ==
    { i \in 1..Len(result) :
        result[i].proxy.hasBL = bl /\ result[i].proxy.hasCIDR = cidr }

Precedes(left, right) ==
    \/ left.latency < right.latency
    \/ /\ left.latency = right.latency
       /\ \/ left.proxy.name < right.proxy.name
          \/ left.proxy.name = right.proxy.name /\ left.proxy.sid < right.proxy.sid

\* C16: no two entries of the selection result share a dedup key (the stable
\* identity, all descriptors being of one protocol), and the entry kept for a
\* key is the best of the key's online descriptors in the order (latency, name,
\* stable identity).
C16_OneCandidatePerKey ==
    callArgs.fn = "select" =>
      LET result == callResult.selection.proxies
          list == callArgs.list
          online == OnlineCandidates(list, callArgs.statusFn)
      IN  /\ \A i, j \in 1..Len(result) :
                result[i].proxy.sid = result[j].proxy.sid => i = j
          /\ \A i \in 1..Len(result) :
                /\ \E d \in online :
                      /\ list[d] = result[i].proxy
                      /\ result[i].latency = callArgs.statusFn[list[d].sid].latency
                /\ \A d \in online :
                      list[d].sid = result[i].proxy.sid =>
                        ~Precedes([proxy |-> list[d],
                                   latency |-> callArgs.statusFn[list[d].sid].latency],
                                  result[i])

\* Two online descriptors of one stable identity are in the list, and the result
\* holds the one whose name comes first
C16_Witness ==
    /\ callArgs.fn = "select"
    /\ \E d, e \in OnlineCandidates(callArgs.list, callArgs.statusFn) :
         /\ callArgs.list[d].sid = callArgs.list[e].sid
         /\ callArgs.list[d].name < callArgs.list[e].name
         /\ \E i \in 1..Len(callResult.selection.proxies) :
              callResult.selection.proxies[i].proxy = callArgs.list[d]

(***************************************************************************)
(* Properties of the active set's hysteresis, checked under HoldSpec       *)
(***************************************************************************)

\* C11: an entry that is in the active set when the replacement loop starts,
\* was admitted less than 2 hours before `now` and has a bad-streak below 2 is
\* still in the active set when Next returns, whatever the candidates'
\* latencies; no replacement removes such an entry.
C11_HoldProtects ==
    callArgs.fn = "Next" =>
      /\ \A k \in DOMAIN callResult.filled :
            (/\ callArgs.now - callResult.filled[k].addedAt < 2 * Hour
             /\ callResult.filled[k].badStreak < 2)
              => k \in DOMAIN active
      /\ \A r \in callResult.replaced :
            \/ callArgs.now - r.out.addedAt >= 2 * Hour
            \/ r.out.badStreak >= 2

\* The incumbent at 200 ms EMA, admitted less than 2 hours ago, is the one
\* active entry and its link the published list, while the challenger was
\* ranked at 180 ms in the invocation just made
C11_Witness ==
    /\ callArgs.fn = "Next"
    /\ limit = 1
    /\ DOMAIN active = { dedupKey(SelA) }
    /\ active[dedupKey(SelA)].item.latency = 200 * Millisecond
    /\ selNow - active[dedupKey(SelA)].addedAt < 2 * Hour
    /\ \E i \in 1..Len(callResult.ranked) :
         /\ callResult.ranked[i].key = dedupKey(SelA3)
         /\ callResult.ranked[i].latency = 180 * Millisecond
    /\ published = << sanitizeConfig(SelA.src) >>
    /\ returned = published

\* A gain of at least 50 ms, or of at least 20% of a positive latency
Significant(candidate, current) ==
    /\ candidate < current
    /\ \/ current - candidate >= 50 * Millisecond
       \/ current > 0 /\ 5 * (current - candidate) >= current

\* The candidates of the EMA-ranked list whose key is not in the active set
Unclaimed(ranked, act) ==
    { i \in 1..Len(ranked) : ranked[i].key \notin DOMAIN act }

\* C12: in every replacement the candidate's EMA latency is strictly lower than
\* the incumbent's and the gain is at least 50 ms or, the incumbent's latency
\* being positive, at least 20% of it; an entry over which no unclaimed
\* candidate has such a gain stays in the active set.
C12_ReplaceOnlySignificant ==
    callArgs.fn = "Next" =>
      /\ \A r \in callResult.replaced :
            Significant(r.in.latency, r.out.item.latency)
      /\ \A k \in DOMAIN callResult.filled :
            (\A i \in Unclaimed(callResult.ranked, callResult.filled) :
               ~Significant(callResult.ranked[i].latency,
                            callResult.filled[k].item.latency))
              => k \in DOMAIN active

\* The replacement of the scenario has been made: the incumbent at 215 ms gives
\* way to the challenger at 162 ms, a gain of 53 ms
C12_Witness ==
    /\ callArgs.fn = "Next"
    /\ \E r \in callResult.replaced :
         /\ r.out.item.latency = 215 * Millisecond
         /\ r.in.latency = 162 * Millisecond
         /\ r.in.key \in DOMAIN active
         /\ r.key \notin DOMAIN active

\* The worst entry of a full active set has been held for 2 hours and an
\* unclaimed candidate is a significant improvement over it: the key of that
\* entry and the index of the best such candidate
DueReplacements ==
    IF callArgs.fn # "Next" THEN {}
    ELSE
      LET filled == callResult.filled
          ranked == callResult.ranked
      IN  { <<w, c>> \in (DOMAIN filled) \X Unclaimed(ranked, filled) :
              /\ Cardinality(DOMAIN filled) >= limit
              /\ \A o \in (DOMAIN filled) \ {w} : Precedes(filled[o].item, filled[w].item)
              /\ callArgs.now - filled[w].addedAt >= 2 * Hour
              /\ Significant(ranked[c].latency, filled[w].item.latency)
              /\ \A d \in Unclaimed(ranked, filled) :
                    Significant(ranked[d].latency, filled[w].item.latency) => c <= d }

InList(list, x) == \E i \in 1..Len(list) : list[i] = x

\* C13 as stated: when the active set is full, its worst member has been held
\* at least 2 hours and an unclaimed candidate is a significant improvement
\* over it, the invocation removes the incumbent, admits the challenger and
\* returns a list with the challenger's link and without the incumbent's.
C13_ReplacedAndReturned ==
    \A pair \in DueReplacements :
      /\ pair[1] \notin DOMAIN active
      /\ callResult.ranked[pair[2]].key \in DOMAIN active
      /\ InList(returned, sanitizeConfig(callResult.ranked[pair[2]].proxy.src))
      /\ ~InList(returned, sanitizeConfig(callResult.filled[pair[1]].item.proxy.src))

\* C13, amended: in that case the invocation removes the incumbent from the
\* active set and admits the challenger; if it publishes, the list it returns
\* is that of the new active set, with the challenger's link and without the
\* incumbent's; if it does not publish, it returns the list published before.
C13_ReplacedAndPublishedWhenDue ==
    \A pair \in DueReplacements :
      /\ pair[1] \notin DOMAIN active
      /\ callResult.ranked[pair[2]].key \in DOMAIN active
      /\ active[callResult.ranked[pair[2]].key].addedAt = callArgs.now
      /\ lastPath \in { "publish", "nopublish" }
      /\ lastPath = "publish" =>
            /\ InList(returned, sanitizeConfig(callResult.ranked[pair[2]].proxy.src))
            /\ ~InList(returned, sanitizeConfig(callResult.filled[pair[1]].item.proxy.src))
      /\ lastPath = "nopublish" => returned = callResult.before

\* The end of the scenario: the incumbent, held for 2 hours, at 215 ms against
\* the challenger at 162 ms; the challenger's link is returned
C13_Witness ==
    /\ DueReplacements # {}
    /\ limit = 1
    /\ DOMAIN callResult.filled = { dedupKey(SelA) }
    /\ DOMAIN active = { dedupKey(SelA3) }
    /\ lastPath = "publish"
    /\ returned = << sanitizeConfig(SelA3.src) >>

(***************************************************************************)
(* Properties of the lists Next computes, checked under HoldSpec           *)
(***************************************************************************)

\* Every entry of the list comes before every later one in the order
\* (latency, name, stable identity)
Sorted(list) ==
    \A i, j \in 1..Len(list) : i < j => Precedes(list[i], list[j])

\* C17: the selection result, the EMA-ranked list and the ranked active set are
\* sorted ascending by (latency, name, stable identity), and a list Next
\* publishes holds the links of the ranked active set in that order.
C17_RankedListsSorted ==
    callArgs.fn = "Next" =>
      /\ Sorted(callResult.selection)
      /\ Sorted(callResult.ranked)
      /\ Sorted(callResult.proposed)
      /\ lastPath = "publish" =>
            /\ returned = published
            /\ Len(published) = Len(callResult.proposed)
            /\ \A i \in 1..Len(published) :
                  published[i] = sanitizeConfig(callResult.proposed[i].proxy.src)

\* Two candidates of equal latency are published, the one whose name comes
\* first before the other
C17_Witness ==
    /\ callArgs.fn = "Next"
    /\ lastPath = "publish"
    /\ Len(callResult.proposed) = 2
    /\ callResult.proposed[1].latency = callResult.proposed[2].latency
    /\ callResult.proposed[1].proxy.name < callResult.proposed[2].proxy.name
    /\ returned = << sanitizeConfig(SelA.src), sanitizeConfig(SelA3.src) >>

\* The source line holds nothing but white space
Blank(src) == \A i \in 1..Len(src) : src[i] \in { "sp", "tab" }

\* The descriptors of the list that carry a marker and a source line and are
\* answered online without an error
Admissible(list, statusFn) ==
    { i \in 1..Len(list) :
        /\ list[i].hasBL \/ list[i].hasCIDR
        /\ ~Blank(list[i].src)
        /\ ~statusFn[list[i].sid].err
        /\ statusFn[list[i].sid].online }

\* C19: every entry of the selection result, and every key that enters the
\* active set in an invocation, belongs to a descriptor of that invocation's
\* list that carries a bucket marker, has a non-empty source line and is
\* answered online without an error.
C19_OnlyAdmissibleCandidates ==
    callArgs.fn = "Next" =>
      LET ok == Admissible(callArgs.list, callArgs.statusFn)
      IN  /\ \A i \in 1..Len(callResult.selection) :
                \E d \in ok : callArgs.list[d] = callResult.selection[i].proxy
          /\ \A k \in (DOMAIN active) \ (DOMAIN callResult.activeBefore) :
                \E d \in ok :
                  /\ callArgs.list[d].sid = k[2]
                  /\ active[k].item.proxy = callArgs.list[d]

\* The incumbent has just entered an active set with room for two, from a list
\* that also holds an untagged and a blank descriptor, both online, and the
\* challenger with a failing lookup
C19_Witness ==
    /\ callArgs.fn = "Next"
    /\ limit = 2
    /\ callArgs.list = HoldList
    /\ callArgs.statusFn[SelU.sid].online /\ callArgs.statusFn[SelE.sid].online
    /\ callArgs.statusFn[SelA3.sid].err
    /\ callResult.activeBefore = EmptyMap
    /\ DOMAIN active = { dedupKey(SelA) }

(***************************************************************************)
(* The size of the active set, checked under SelSpec                       *)
(***************************************************************************)

\* C18: after every invocation of Next the active set holds at most `limit`
\* entries and the returned list at most `limit` links.
C18_ActiveSetCapped ==
    /\ Cardinality(DOMAIN active) <= limit
    /\ Len(returned) <= limit

\* A selector of limit 1 that has seen two keys holds one and returns one link
C18_Witness ==
    /\ selCalls > 0
    /\ limit = 1
    /\ Cardinality(DOMAIN emaByKey) >= 2
    /\ Cardinality(DOMAIN active) = 1
    /\ Len(returned) = 1

(***************************************************************************)
(* The fill step of reconcileActive, checked under HoldSpec                *)
(***************************************************************************)

\* The keys of a ranked list
RankedKeys(ranked) == { ranked[i].key : i \in 1..Len(ranked) }

\* The keys the fill loop of the last invocation admitted: those it holds that
\* the active set did not hold when Next was called
AdmittedByFill == (DOMAIN callResult.filled) \ (DOMAIN callResult.activeBefore)

\* C33: after an invocation of Next that reconciled, an active set of fewer
\* than `limit` entries holds every candidate of the invocation's ranked list;
\* and the fill loop takes the candidates in rank order: none it admitted ranks
\* behind one it left out.
C33_FillInRankOrder ==
    (callResult.fn = "Next" /\ callResult.reconciled) =>
      /\ Cardinality(DOMAIN active) < limit =>
           RankedKeys(callResult.ranked) \subseteq DOMAIN active
      /\ \A i, j \in 1..Len(callResult.ranked) :
           ( /\ callResult.ranked[i].key \in AdmittedByFill
             /\ callResult.ranked[j].key \notin DOMAIN callResult.filled ) => i < j

\* A selector of limit 1 was given two candidates at once: the fill loop
\* admitted the better and left the other out
C33_Witness ==
    /\ callResult.fn = "Next"
    /\ callResult.reconciled
    /\ limit = 1
    /\ Len(callResult.ranked) = 2
    /\ callResult.ranked[1].key \in AdmittedByFill
    /\ callResult.ranked[2].key \notin DOMAIN callResult.filled

(***************************************************************************)
(* The status probe, checked under GenSpec                                 *)
(***************************************************************************)

\* What the first and the second client.Do of the probe bring
FirstDo == callArgs.outcomes[1]

SecondDo == callArgs.outcomes[2]

\* C34 as stated: the status probe makes at most two HTTP attempts; a second
\* attempt is made only when the first failed with an error whose text
\* contains "EOF"; any other error of the first attempt and any error of the
\* second fails the probe without another attempt.
C34_RetryOnlyAfterEOF ==
    (callResult.fn = "checkByGen") =>
      /\ callResult.attempts <= 2
      /\ callResult.attempts = 2 => (FirstDo.err /\ Contains(FirstDo.text, EOFText))
      /\ (callResult.pc = "done" /\ callResult.attempts >= 1
            /\ FirstDo.err /\ ~Contains(FirstDo.text, EOFText)) =>
           (callResult.attempts = 1 /\ callResult.failed /\ callResult.text = FirstDo.text)
      /\ (callResult.pc = "done" /\ callResult.attempts = 2 /\ SecondDo.err) =>
           (callResult.failed /\ callResult.text = SecondDo.text)

\* C34, amended: the status probe makes at most two HTTP attempts; a second
\* attempt is made only when the first failed with an error whose text
\* contains "EOF" in any letter case; any other error of the first attempt and
\* any error of the second fails the probe without another attempt.
C34_RetryOnlyAfterEOFAnyCase ==
    (callResult.fn = "checkByGen") =>
      /\ callResult.attempts <= 2
      /\ callResult.attempts = 2 =>
           (FirstDo.err /\ Contains(ToUpper(FirstDo.text), EOFText))
      /\ (callResult.pc = "done" /\ callResult.attempts >= 1
            /\ FirstDo.err /\ ~Contains(ToUpper(FirstDo.text), EOFText)) =>
           (callResult.attempts = 1 /\ callResult.failed /\ callResult.text = FirstDo.text)
      /\ (callResult.pc = "done" /\ callResult.attempts = 2 /\ SecondDo.err) =>
           (callResult.failed /\ callResult.text = SecondDo.text)

\* A probe whose first attempt failed with EOF has failed at its second
\* attempt, which brought EOF again
C34_Witness ==
    /\ callResult.fn = "checkByGen"
    /\ callResult.pc = "done"
    /\ callResult.attempts = 2
    /\ callResult.slept = genRetryDelay
    /\ FirstDo.err /\ FirstDo.text = EOFText
    /\ SecondDo.err /\ SecondDo.text = EOFText
    /\ callResult.failed

(***************************************************************************)
(* The bad-streaks of the active set, checked under HoldSpec               *)
(***************************************************************************)

\* The key had no online observation in the list the last invocation was given
MissedLastCall(k) == NoOnlineObservation(callArgs.list, callArgs.statusFn, k)

\* C35: after an invocation of Next that reconciled, every entry of the active
\* set has a bad-streak of 0 or 1: an entry whose key was observed online has
\* streak 0, an entry whose key was not (offline, unavailable or absent) has
\* its former streak plus one, and an entry whose streak reached 2 is gone.
C35_StreakBelowLimit ==
    (callResult.fn = "Next" /\ callResult.reconciled) =>
      /\ \A k \in DOMAIN active : active[k].badStreak \in { 0, 1 }
      /\ \A k \in DOMAIN callResult.activeBefore :
           /\ (k \in DOMAIN active /\ ~MissedLastCall(k)) => active[k].badStreak = 0
           /\ (k \in DOMAIN active /\ MissedLastCall(k)) =>
                active[k].badStreak = callResult.activeBefore[k].badStreak + 1
           /\ (MissedLastCall(k) /\ callResult.activeBefore[k].badStreak + 1 >= 2) =>
                k \notin DOMAIN active

\* An entry that carried streak 1 was missed again and is gone
C35_Witness ==
    /\ callResult.fn = "Next"
    /\ callResult.reconciled
    /\ \E k \in DOMAIN callResult.activeBefore :
         /\ callResult.activeBefore[k].badStreak = 1
         /\ MissedLastCall(k)
         /\ k \notin DOMAIN active

(***************************************************************************)
(* The all-n/a return of Next, checked under SelSpec                       *)
(***************************************************************************)

\* C36: an invocation of Next that returns at the all-n/a test changes nothing
\* in the selector: the EMA values, the active set with its admission times
\* and bad-streaks, the published list, the time of the last publish and the
\* emergency flag are what they were before the call.
C36_ShortCircuitChangesNothing ==
    [][(selCalls' = selCalls + 1 /\ lastPath' = "shortcircuit") =>
         UNCHANGED << limit, emaByKey, active, published, lastPublished,
                      hadEmergency >>]_vars

\* Next returned at the all-n/a test while an entry of the active set carried
\* a streak of 1, and the entry carries it still
C36_Witness ==
    /\ lastPath = "shortcircuit"
    /\ lastAllNA
    /\ published # <<>>
    /\ \E k \in DOMAIN active : active[k].badStreak = 1

(***************************************************************************)
(* What a reader beside a batch is given, checked under ReadSpec           *)
(***************************************************************************)

\* C37: whatever the interleaving of the stores of the probes with a read, the
\* read never returns online = true together with the latency 0 a failed probe
\* stored.  (The probes of this specification succeed with a latency above 0,
\* and an online flag is stored after its latency: a latency 0 beside
\* online = true is the one a failed probe stored.)  (Violated: the read loads
\* the status first and the latency later, with the stores of a failed probe
\* in between.)
C37_NeverOnlineWithFailedLatency ==
    (callResult.fn \in { "GetProxyStatus", "GetProxyStatusByStableID" }
       /\ callResult.pc = "done" /\ callResult.err = "nil" /\ callResult.online)
      => callResult.latency # 0

(***************************************************************************)
(* updateConfiguration, checked under ConfigSpec                           *)
(***************************************************************************)

\* The recorded state of the checker and what UpdateProxies replaces
CheckerHoldings == << proxies, generation, currentMetrics, latencyMetrics, badSince >>

\* C38: UpdateProxies is called only by an updateConfiguration whose
\* config generation, runner Stop and runner Start have succeeded, in that
\* order; no other step of updateConfiguration touches the proxy list, the
\* generation or the recorded state of the checker; and a call in which one of
\* the three fails returns that error, the list and the generation being what
\* they were when it began.
C38_UpdateOnlyAfterRestart ==
    [][/\ (generation' # generation \/ proxies' # proxies) =>
            /\ callResult.fn = "updateConfiguration"
            /\ callResult.done = ConfigSteps
            /\ callResult.err = "nil"
            /\ callArgs.fails = "none"
       /\ callResult' # callResult => UNCHANGED CheckerHoldings
       /\ (callResult'.fn = "updateConfiguration" /\ callResult'.pc = "returned"
             /\ callArgs'.fails # "none") =>
            /\ callResult'.err = callArgs'.fails
            /\ generation' = callResult'.generation0
            /\ proxies' = callResult'.proxies0
            /\ "update" \notin Range(callResult'.done)]_vars

\* Both outcomes have happened: a call has returned the error of a runner that
\* did not start while the checker holds recorded state of its old list, and
\* before it a call has replaced the list
C38_Witness ==
    /\ callResult.fn = "updateConfiguration"
    /\ callResult.pc = "returned"
    /\ callResult.err = "start"
    /\ callResult.done = << "generate", "stop" >>
    /\ generation = 1
    /\ proxies # <<>>
    /\ DOMAIN currentMetrics # {}

(***************************************************************************)
(* Removal beside a download, checked under LoadedSpec                     *)
(***************************************************************************)

\* The other goroutine
Other(g) == CHOOSE h \in Goroutines : h # g

\* C39: mergeDownloaded adds no source to the state; and a source that
\* RemoveByID removed while the other goroutine's AddURLs or CheckUpdates was
\* downloading a copy of it is not in the state as long as that call is the
\* other goroutine's last: not before its merge, not after it.
C39_RemovedStaysRemoved ==
    [][/\ \A g \in Goroutines :
            (rmOp[g].pc = "merge" /\ rmOp'[g].pc # "merge") =>
               DOMAIN sources' = DOMAIN sources
       /\ \A g \in Goroutines :
            ( /\ rmOp'[g].fn = "RemoveByID"
              /\ rmOp'[g].pc = "idle"
              /\ rmOp'[g].raced # 0
              /\ rmOp'[Other(g)].calls = rmOp'[g].raced ) =>
               rmOp'[g].arg \notin DOMAIN sources']_vars

\* CheckUpdates of goroutine 1 copied the first URL's source, goroutine 2
\* removed it during the download, and the call has merged its downloaded copy
\* and returned: the source is not in the state
C39_Witness ==
    /\ rmOp[1].fn = "CheckUpdates"
    /\ rmOp[1].pc = "idle"
    /\ hashURL("u1") \in DOMAIN rmOp[1].items
    /\ rmOp[2].fn = "RemoveByID"
    /\ rmOp[2].pc = "idle"
    /\ rmOp[2].raced = rmOp[1].calls
    /\ hashURL("u1") \notin DOMAIN sources

(***************************************************************************)
(* The saves of the remote manager, checked under LoadedSpec               *)
(***************************************************************************)

\* The positions of a call whose next step runs m.saveLocked()
SavePositions == { "add_append", "add_save", "chk_save", "rm_remove" }

\* The positions at which a call holds m.mu and changes m.state.Sources
MutatingPositions == { "add_append", "merge", "rm_remove" }

\* C40: every m.saveLocked() runs while its goroutine holds m.mu, so that no
\* other goroutine is changing the state while it is serialized.  (Violated:
\* the last save of AddURLs runs after mergeDownloaded has released the mutex.)
C40_SavesHoldMutex ==
    [][\A g \in Goroutines :
         (rmOp[g].pc \in SavePositions /\ rmOp'[g].pc # rmOp[g].pc) =>
            /\ managerMu = g
            /\ \A h \in Goroutines \ { g } : rmOp[h].pc \notin MutatingPositions]_vars

====
